---- MODULE Spec2Model ----
(***************************************************************************)
(* A model of garm-provider-gcp: the resolution of a bootstrap request     *)
(* into a runner specification (internal/spec), the construction of the    *)
(* instance descriptor and the remote calls (internal/client), and the     *)
(* provider operations built on them (provider).                           *)
(*                                                                         *)
(* Strings whose characters matter (instance names, label keys and values, *)
(* network tags) are sequences of one-character strings; strings that are  *)
(* only copied around (network ids, images, ...) are TLA+ strings.         *)
(* An error is the chain of its messages, outermost first; nil is <<>>.    *)
(***************************************************************************)
EXTENDS Integers, Sequences, FiniteSets, TLC

VARIABLES cfg, controllerID, remote, calls, eval

vars == <<cfg, controllerID, remote, calls, eval>>

(***************************************************************************)
(* Bounds of the model.                                                    *)
(***************************************************************************)
\* the number of provider calls that may be in flight together
NumCalls == 2

(***************************************************************************)
(* Program constants.                                                      *)
(***************************************************************************)
defaultDiskSizeGB == 127
MaxCustomLabels == 61
MaxNetworkTags == 64
HTTPNotFound == 404
HTTPForbidden == 403

defaultNicType == "VIRTIO_NET"
garmPoolID == <<"g","a","r","m","p","o","o","l","i","d">>
garmControllerID == <<"g","a","r","m","c","o","n","t","r","o","l","l","e","r","i","d">>
osType == <<"o","s","t","y","p","e">>
Linux == <<"l","i","n","u","x">>
Windows == <<"w","i","n","d","o","w","s">>
linuxUserData == "user-data"
windowsStartupScript == "sysprep-specialize-script-ps1"
accessConfigType == "ONE_TO_ONE_NAT"

Nil == <<>>

(***************************************************************************)
(* Characters.                                                             *)
(***************************************************************************)
AsciiLower == {"a","b","c","d","e","f","g","h","i","j","k","l","m",
               "n","o","p","q","r","s","t","u","v","w","x","y","z"}
AsciiUpper == {"A","K","M","V","X"}
\* lowercase letters outside ASCII, which \p{Ll} accepts and [a-z] does not
OtherLower == {"ss"}
Digits == {"0","1","2","3","4","5","6","7","8","9"}

UpperOf == [c \in {"a","k","m","v","x"} |->
              CASE c = "a" -> "A" [] c = "k" -> "K" [] c = "m" -> "M"
                [] c = "v" -> "V" [] c = "x" -> "X"]

\* strings.ToLower, on one character
LowerChar(c) ==
  IF c \in AsciiUpper THEN CHOOSE l \in DOMAIN UpperOf : UpperOf[l] = c ELSE c

\* strings.ToLower
ToLower(s) == [i \in 1..Len(s) |-> LowerChar(s[i])]

\* util.GetInstanceName
GetInstanceName(name) == ToLower(name)

\* util.GetMachineType: "zones/<zone>/machineTypes/<flavor>"
GetMachineType(zone, flavor) == <<"zones/", zone, "/machineTypes/", flavor>>

(***************************************************************************)
(* Errors and results.                                                     *)
(***************************************************************************)
\* fmt.Errorf("<msg>: %w", err)
Wrap(msg, err) == <<msg>> \o err

IsErr(e) == e # Nil

(***************************************************************************)
(* The extra-specs blob.  A blob is zero bytes, bytes that are not JSON,   *)
(* or a JSON object: a function from the keys it holds to their values.    *)
(* A JSON value is [t |-> its type, v |-> its value].                      *)
(***************************************************************************)
JInt(n) == [t |-> "integer", v |-> n]
JStr(s) == [t |-> "string", v |-> s]
JBool(b) == [t |-> "boolean", v |-> b]
JObj(m) == [t |-> "object", v |-> m]
JArr(l) == [t |-> "array", v |-> l]

EmptyMap == [k \in {} |-> Nil]
EmptyBlob == [kind |-> "empty", doc |-> EmptyMap]
MalformedBlob == [kind |-> "malformed", doc |-> EmptyMap]
JsonBlob(doc) == [kind |-> "json", doc |-> doc]

\* the schema reflected from the extraSpecs struct (AllowAdditionalProperties
\* false): the permitted keys, in the struct's order, and the type of each
SchemaKeys == <<"disksize", "disktype", "display_device", "network_id",
                "subnetwork_id", "nic_type", "custom_labels", "network_tags",
                "service_accounts", "source_snapshot", "ssh_keys",
                "enable_boot_debug", "disable_updates", "enable_secure_boot",
                "enable_vtpm", "enable_integrity_monitoring",
                "runner_install_template", "pre_install_scripts",
                "extra_context">>

SchemaType(key) ==
  CASE key = "disksize" -> "integer"
    [] key \in {"display_device", "enable_boot_debug", "disable_updates",
                "enable_secure_boot", "enable_vtpm",
                "enable_integrity_monitoring"} -> "boolean"
    [] key \in {"custom_labels", "pre_install_scripts", "extra_context"} -> "object"
    [] key \in {"network_tags", "service_accounts", "ssh_keys"} -> "array"
    [] OTHER -> "string"

generateJSONSchema == {SchemaKeys[i] : i \in 1..Len(SchemaKeys)}

\* the keys a document may hold in this model, in a fixed order: the schema's
\* and one the schema does not know
DocKeys == SchemaKeys \o <<"additional_property">>

RECURSIVE SchemaErrors(_, _)
\* result.Errors(): what gojsonschema reports for the keys DocKeys[i..] of doc
SchemaErrors(doc, i) ==
  IF i > Len(DocKeys) THEN <<>>
  ELSE LET key == DocKeys[i]
           here == IF key \notin DOMAIN doc THEN <<>>
                   ELSE IF key \notin generateJSONSchema
                        THEN <<key, "Additional property is not allowed">>
                   ELSE IF doc[key].t # SchemaType(key)
                        THEN <<key, "Invalid type", SchemaType(key), doc[key].t>>
                   ELSE <<>>
       IN here \o SchemaErrors(doc, i + 1)

\* a schema validation that lets properties outside the schema pass, which the
\* property of the schema errors tells apart from the code's
jsonSchemaValidationOpen(blob) ==
  LET known == [k \in DOMAIN blob.doc \cap generateJSONSchema |-> blob.doc[k]]
  IN IF blob.kind = "empty" THEN <<"failed to validate schema", "EOF">>
     ELSE IF blob.kind = "malformed"
          THEN <<"failed to validate schema", "invalid character">>
     ELSE IF SchemaErrors(known, 1) # <<>>
          THEN <<"schema validation failed">> \o SchemaErrors(known, 1)
     ELSE Nil

\* jsonSchemaValidation: the loader of the document decodes the bytes first,
\* and a decoder given zero bytes fails with EOF
jsonSchemaValidation(blob) ==
  IF blob.kind = "empty" THEN <<"failed to validate schema", "EOF">>
  ELSE IF blob.kind = "malformed"
       THEN <<"failed to validate schema", "invalid character">>
  ELSE IF SchemaErrors(blob.doc, 1) # <<>>
       THEN <<"schema validation failed">> \o SchemaErrors(blob.doc, 1)
  ELSE Nil

(***************************************************************************)
(* extraSpecs, the overlay.  A *bool is Nil or <<b>>.                      *)
(***************************************************************************)
ZeroExtraSpecs ==
  [DiskSize |-> 0, DiskType |-> "", DisplayDevice |-> FALSE,
   NetworkID |-> "", SubnetworkID |-> "", NicType |-> "",
   CustomLabels |-> EmptyMap, NetworkTags |-> <<>>, ServiceAccounts |-> <<>>,
   SourceSnapshot |-> "", SSHKeys |-> <<>>,
   EnableBootDebug |-> Nil, DisableUpdates |-> Nil,
   EnableSecureBoot |-> Nil, EnableVTPM |-> Nil,
   EnableIntegrityMonitoring |-> Nil]

Field(doc, key, zero) == IF key \in DOMAIN doc THEN doc[key].v ELSE zero
PtrField(doc, key) == IF key \in DOMAIN doc THEN <<doc[key].v>> ELSE Nil

\* json.Unmarshal(data.ExtraSpecs, spec) of a document the schema accepts
Unmarshal(doc) ==
  [DiskSize |-> Field(doc, "disksize", 0),
   DiskType |-> Field(doc, "disktype", ""),
   DisplayDevice |-> Field(doc, "display_device", FALSE),
   NetworkID |-> Field(doc, "network_id", ""),
   SubnetworkID |-> Field(doc, "subnetwork_id", ""),
   NicType |-> Field(doc, "nic_type", ""),
   CustomLabels |-> Field(doc, "custom_labels", EmptyMap),
   NetworkTags |-> Field(doc, "network_tags", <<>>),
   ServiceAccounts |-> Field(doc, "service_accounts", <<>>),
   SourceSnapshot |-> Field(doc, "source_snapshot", ""),
   SSHKeys |-> Field(doc, "ssh_keys", <<>>),
   EnableBootDebug |-> PtrField(doc, "enable_boot_debug"),
   DisableUpdates |-> PtrField(doc, "disable_updates"),
   EnableSecureBoot |-> PtrField(doc, "enable_secure_boot"),
   EnableVTPM |-> PtrField(doc, "enable_vtpm"),
   EnableIntegrityMonitoring |-> PtrField(doc, "enable_integrity_monitoring")]

\* \p{Ll}
IsLl(c) == c \in AsciiLower \cup OtherLower
IsLabelChar(c) == IsLl(c) \/ c \in Digits \/ c \in {"_", "-"}

\* a key pattern without the requirement on the first character, which the
\* property of the label grammar tells apart from customLabelKeyRegex
MatchKeyAnyFirst(s) ==
  /\ Len(s) >= 1
  /\ Len(s) <= 63
  /\ \A i \in 1..Len(s) : IsLabelChar(s[i])

\* customLabelKeyRegex "^\p{Ll}[\p{Ll}0-9_-]{0,62}$"
MatchKey(s) ==
  /\ Len(s) >= 1
  /\ Len(s) <= 63
  /\ IsLl(s[1])
  /\ \A i \in 2..Len(s) : IsLabelChar(s[i])

\* customLabelValueRegex "^[\p{Ll}0-9_-]{0,63}$"
MatchValue(s) ==
  /\ Len(s) <= 63
  /\ \A i \in 1..Len(s) : IsLabelChar(s[i])

\* networkTagRegex "^[a-z][a-z0-9-]{0,61}[a-z0-9]$"
MatchTag(s) ==
  /\ Len(s) >= 2
  /\ Len(s) <= 63
  /\ s[1] \in AsciiLower
  /\ \A i \in 2..(Len(s) - 1) : s[i] \in AsciiLower \cup Digits \cup {"-"}
  /\ s[Len(s)] \in AsciiLower \cup Digits

\* the first tag of the list that does not match, 0 when all match
RECURSIVE FirstBadTag(_, _)
FirstBadTag(tags, i) ==
  IF i > Len(tags) THEN 0
  ELSE IF ~MatchTag(tags[i]) THEN i
  ELSE FirstBadTag(tags, i + 1)

\* a Validate whose two limits are off by one, which the property of the
\* limits tells apart from the code's
ValidateOffByOne(e) ==
  LET labels == e.CustomLabels
      labelErrs ==
        {<<"custom label key does not match requirements">> :
            k \in {k \in DOMAIN labels : ~MatchKey(k)}}
        \cup
        {<<"custom label value does not match requirements">> :
            k \in {k \in DOMAIN labels : MatchKey(k) /\ ~MatchValue(labels[k])}}
  IN IF Cardinality(DOMAIN labels) >= MaxCustomLabels
     THEN {<<"custom labels cannot exceed 61 items">>}
     ELSE IF labelErrs # {} THEN labelErrs
     ELSE IF Len(e.NetworkTags) >= MaxNetworkTags
          THEN {<<"network tags cannot exceed 64 items">>}
     ELSE IF FirstBadTag(e.NetworkTags, 1) # 0
          THEN {<<"network tag does not match requirements">>}
     ELSE {}

\* extraSpecs.Validate: the errors it may return, {} when it returns nil.  The
\* labels are a map, ranged over in no fixed order, so with several offending
\* labels any of them may be the one reported.
Validate(e) ==
  LET labels == e.CustomLabels
      labelErrs ==
        {<<"custom label key does not match requirements">> :
            k \in {k \in DOMAIN labels : ~MatchKey(k)}}
        \cup
        {<<"custom label value does not match requirements">> :
            k \in {k \in DOMAIN labels : MatchKey(k) /\ ~MatchValue(labels[k])}}
  IN IF Cardinality(DOMAIN labels) > MaxCustomLabels
     THEN {<<"custom labels cannot exceed 61 items">>}
     ELSE IF labelErrs # {} THEN labelErrs
     ELSE IF Len(e.NetworkTags) > MaxNetworkTags
          THEN {<<"network tags cannot exceed 64 items">>}
     ELSE IF FirstBadTag(e.NetworkTags, 1) # 0
          THEN {<<"network tag does not match requirements">>}
     ELSE {}

\* the overlay read from the extra specs with neither the schema nor
\* Validate consulted, which the properties of the rejection of extra specs
\* tell apart from newExtraSpecsFromBootstrapData
newExtraSpecsUnchecked(data) ==
  {[err |-> Nil, spec |-> Unmarshal(data.ExtraSpecs.doc)]}

\* newExtraSpecsFromBootstrapData: the results [err, spec] it may return
newExtraSpecsFromBootstrapData(data) ==
  LET blob == data.ExtraSpecs
      schemaErr == jsonSchemaValidation(blob)
      spec == IF blob.kind # "empty" THEN Unmarshal(blob.doc) ELSE ZeroExtraSpecs
  IN IF IsErr(schemaErr)
     THEN {[err |-> Wrap("failed to validate extra specs", schemaErr), spec |-> Nil]}
     ELSE IF Validate(spec) # {}
          THEN {[err |-> Wrap("failed to validate extra specs", e), spec |-> Nil] :
                   e \in Validate(spec)}
     ELSE {[err |-> Nil, spec |-> spec]}

(***************************************************************************)
(* RunnerSpec.                                                             *)
(***************************************************************************)
\* Other merges, which the properties of MergeExtraSpecs tell apart from the
\* code's: the labels of the overlay taking the place of the map, and the
\* fields of the overlay assigned whether they are set or not.
MapsReplace(dst, src) == src

MergeExtraSpecsUnguarded(r, extraSpecs) ==
  [r EXCEPT !.NetworkID = extraSpecs.NetworkID,
            !.DiskSize = extraSpecs.DiskSize,
            !.SourceSnapshot = extraSpecs.SourceSnapshot]

\* maps.Copy(dst, src)
MapsCopy(dst, src) ==
  [k \in DOMAIN dst \cup DOMAIN src |-> IF k \in DOMAIN src THEN src[k] ELSE dst[k]]

\* the loop of MergeExtraSpecs over the SSH keys:
\* r.SSHKeys = r.SSHKeys + "\n" + extraSpecs.SSHKeys[key].  A string built by
\* concatenation is the sequence of its pieces.
RECURSIVE AppendSSHKeys(_, _, _)
AppendSSHKeys(acc, keys, i) ==
  IF i > Len(keys) THEN acc
  ELSE AppendSSHKeys(acc \o <<"\n", keys[i]>>, keys, i + 1)

\* RunnerSpec.MergeExtraSpecs
MergeExtraSpecs(r, extraSpecs) ==
  [r EXCEPT
    !.NetworkID = IF extraSpecs.NetworkID # "" THEN extraSpecs.NetworkID ELSE @,
    !.SubnetworkID = IF extraSpecs.SubnetworkID # "" THEN extraSpecs.SubnetworkID ELSE @,
    !.DisplayDevice = IF extraSpecs.DisplayDevice THEN extraSpecs.DisplayDevice ELSE @,
    !.DiskSize = IF extraSpecs.DiskSize > 0 THEN extraSpecs.DiskSize ELSE @,
    !.DiskType = IF extraSpecs.DiskType # "" THEN extraSpecs.DiskType ELSE @,
    !.NicType = IF extraSpecs.NicType # "" THEN extraSpecs.NicType ELSE @,
    !.CustomLabels = IF Cardinality(DOMAIN extraSpecs.CustomLabels) > 0
                     THEN MapsCopy(@, extraSpecs.CustomLabels) ELSE @,
    !.NetworkTags = IF Len(extraSpecs.NetworkTags) > 0 THEN extraSpecs.NetworkTags ELSE @,
    !.ServiceAccounts = IF Len(extraSpecs.ServiceAccounts) > 0
                        THEN extraSpecs.ServiceAccounts ELSE @,
    !.SourceSnapshot = IF extraSpecs.SourceSnapshot # "" THEN extraSpecs.SourceSnapshot ELSE @,
    !.SSHKeys = IF Len(extraSpecs.SSHKeys) > 0
                THEN AppendSSHKeys(@, extraSpecs.SSHKeys, 1) ELSE @,
    !.EnableBootDebug = IF extraSpecs.EnableBootDebug # Nil
                        THEN extraSpecs.EnableBootDebug[1] ELSE @,
    !.DisableUpdates = IF extraSpecs.DisableUpdates # Nil
                       THEN extraSpecs.DisableUpdates[1] ELSE @,
    !.EnableSecureBoot = IF extraSpecs.EnableSecureBoot # Nil
                         THEN extraSpecs.EnableSecureBoot[1] ELSE @,
    !.EnableVTPM = IF extraSpecs.EnableVTPM # Nil
                   THEN extraSpecs.EnableVTPM[1] ELSE @,
    !.EnableIntegrityMonitoring = IF extraSpecs.EnableIntegrityMonitoring # Nil
                                  THEN extraSpecs.EnableIntegrityMonitoring[1] ELSE @]

\* the RunnerSpec literal of GetRunnerSpecFromBootstrapParams: the defaults,
\* the configuration and the labels derived from the request
BaseRunnerSpec(config, data, ctrlID, tools) ==
  [Zone |-> config.Zone,
   Tools |-> tools,
   BootstrapParams |-> data,
   NetworkID |-> config.NetworkID,
   SubnetworkID |-> config.SubnetworkID,
   ControllerID |-> ctrlID,
   NicType |-> defaultNicType,
   DisplayDevice |-> FALSE,
   DiskSize |-> defaultDiskSizeGB,
   DiskType |-> "",
   CustomLabels |-> [k \in {garmPoolID, garmControllerID, osType} |->
                       IF k = garmPoolID THEN data.PoolID
                       ELSE IF k = garmControllerID THEN ctrlID
                       ELSE data.OSType],
   NetworkTags |-> <<>>,
   ServiceAccounts |-> <<>>,
   SourceSnapshot |-> "",
   SSHKeys |-> <<>>,
   EnableBootDebug |-> FALSE,
   DisableUpdates |-> FALSE,
   EnableSecureBoot |-> FALSE,
   EnableVTPM |-> FALSE,
   EnableIntegrityMonitoring |-> FALSE]

\* GetRunnerSpecFromBootstrapParams: the results [err, spec] it may return.
\* toolsErr is what DefaultToolFetch returned (Nil, or its error).
GetRunnerSpecFromBootstrapParams(config, data, ctrlID, toolsErr) ==
  IF IsErr(toolsErr)
  THEN {[err |-> Wrap("failed to get tools", toolsErr), spec |-> Nil]}
  ELSE {IF IsErr(x.err)
        THEN [err |-> Wrap("error loading extra specs", x.err), spec |-> Nil]
        ELSE [err |-> Nil,
              spec |-> MergeExtraSpecs(BaseRunnerSpec(config, data, ctrlID, "tools"),
                                       x.spec)] :
        x \in newExtraSpecsFromBootstrapData(data)}

\* a Validate without the check of the NIC type, which the property of
\* RunnerSpec.Validate tells apart from the code's
RunnerSpecValidateNoNic(r) ==
  IF r.Zone = "" THEN <<"missing zone">>
  ELSE IF r.NetworkID = "" THEN <<"missing network id">>
  ELSE IF r.SubnetworkID = "" THEN <<"missing subnetwork id">>
  ELSE IF r.ControllerID = <<>> THEN <<"missing controller id">>
  ELSE Nil

\* RunnerSpec.Validate
RunnerSpecValidate(r) ==
  IF r.Zone = "" THEN <<"missing zone">>
  ELSE IF r.NetworkID = "" THEN <<"missing network id">>
  ELSE IF r.SubnetworkID = "" THEN <<"missing subnetwork id">>
  ELSE IF r.ControllerID = <<>> THEN <<"missing controller id">>
  ELSE IF r.NicType = "" THEN <<"missing nic type">>
  ELSE Nil

\* RunnerSpec.ComposeUserData: [err, udata].  renderErr is what the renderer
\* (DefaultCloudConfigFunc, DefaultRunnerInstallScriptFunc) returned; the text
\* it renders is the sequence of what it was given.
ComposeUserData(r, renderErr) ==
  LET options == <<IF r.EnableBootDebug THEN "EnableBootDebug" ELSE "",
                   IF r.DisableUpdates THEN "DisableUpdatesOnBoot" ELSE "">>
  IN IF r.BootstrapParams.OSType = Linux
     THEN IF IsErr(renderErr)
          THEN [err |-> Wrap("failed to generate userdata", renderErr), udata |-> <<>>]
          ELSE [err |-> Nil, udata |-> <<"cloud-config">> \o options]
     ELSE IF r.BootstrapParams.OSType = Windows
     THEN IF IsErr(renderErr)
          THEN [err |-> Wrap("failed to generate userdata", renderErr), udata |-> <<>>]
          ELSE [err |-> Nil, udata |-> <<"install-script">> \o options]
     ELSE [err |-> <<"unsupported OS type for cloud config", r.BootstrapParams.OSType>>,
           udata |-> <<>>]

(***************************************************************************)
(* The instance descriptor.  A *string is Nil or <<s>>.                    *)
(***************************************************************************)
\* selectStartupScript
selectStartupScript(os) ==
  IF os = Windows THEN windowsStartupScript
  ELSE IF os = Linux THEN linuxUserData
  ELSE ""

\* a boot disk that keeps the image next to the snapshot, which the property
\* of the boot disk tells apart from generateBootDisk
generateBootDiskKeepImage(diskSize, image, snapshot, diskType, customLabels) ==
  <<[Boot |-> TRUE,
     InitializeParams |->
       [DiskSizeGb |-> diskSize,
        Labels |-> customLabels,
        SourceImage |-> <<image>>,
        SourceSnapshot |-> <<snapshot>>,
        DiskType |-> IF diskType # "" THEN <<diskType>> ELSE Nil],
     AutoDelete |-> TRUE]>>

\* generateBootDisk
generateBootDisk(diskSize, image, snapshot, diskType, customLabels) ==
  <<[Boot |-> TRUE,
     InitializeParams |->
       [DiskSizeGb |-> diskSize,
        Labels |-> customLabels,
        SourceImage |-> IF snapshot # "" THEN Nil ELSE <<image>>,
        SourceSnapshot |-> <<snapshot>>,
        DiskType |-> IF diskType # "" THEN <<diskType>> ELSE Nil],
     AutoDelete |-> TRUE]>>

\* an interface whose external-access block stays attached whatever the
\* configuration says, which the property of the access configuration tells
\* apart from the code's
NetworkInterfaceAttached(config, spec) ==
  [Network |-> config.NetworkID,
   NicType |-> spec.NicType,
   AccessConfigs |-> <<[Type |-> accessConfigType]>>,
   Subnetwork |-> spec.SubnetworkID]

\* the network interface of the descriptor, after the removal of the access
\* configurations when the configuration disables external IP access
NetworkInterface(config, spec) ==
  [Network |-> config.NetworkID,
   NicType |-> spec.NicType,
   AccessConfigs |-> IF ~config.ExternalIPAccess THEN Nil
                     ELSE <<[Type |-> accessConfigType]>>,
   Subnetwork |-> spec.SubnetworkID]

\* metadata whose two SSH items do not depend on the OS, which the property
\* of the metadata tells apart from the code's
MetadataItemsAnyOS(spec, udata) ==
  <<[Key |-> selectStartupScript(spec.BootstrapParams.OSType), Value |-> udata],
    [Key |-> "runner_name", Value |-> spec.BootstrapParams.Name],
    [Key |-> "ssh-keys", Value |-> spec.SSHKeys]>>
  \o (IF Len(spec.SSHKeys) > 0
      THEN <<[Key |-> "enable-windows-ssh", Value |-> <<"TRUE">>],
             [Key |-> "sysprep-specialize-script-cmd",
              Value |-> <<"googet -noconfirm=true install google-compute-engine-ssh">>]>>
      ELSE <<>>)

\* the metadata items of the descriptor
MetadataItems(spec, udata) ==
  <<[Key |-> selectStartupScript(spec.BootstrapParams.OSType), Value |-> udata],
    [Key |-> "runner_name", Value |-> spec.BootstrapParams.Name],
    [Key |-> "ssh-keys", Value |-> spec.SSHKeys]>>
  \o (IF spec.BootstrapParams.OSType = Windows /\ Len(spec.SSHKeys) > 0
      THEN <<[Key |-> "enable-windows-ssh", Value |-> <<"TRUE">>],
             [Key |-> "sysprep-specialize-script-cmd",
              Value |-> <<"googet -noconfirm=true install google-compute-engine-ssh">>]>>
      ELSE <<>>)

\* the computepb.Instance that GcpCli.CreateInstance builds
BuildInstance(config, spec, udata) ==
  [Name |-> GetInstanceName(spec.BootstrapParams.Name),
   MachineType |-> GetMachineType(config.Zone, spec.BootstrapParams.Flavor),
   Disks |-> generateBootDisk(spec.DiskSize, spec.BootstrapParams.Image,
                              spec.SourceSnapshot, spec.DiskType, spec.CustomLabels),
   DisplayDevice |-> spec.DisplayDevice,
   NetworkInterfaces |-> <<NetworkInterface(config, spec)>>,
   Metadata |-> MetadataItems(spec, udata),
   Labels |-> spec.CustomLabels,
   Tags |-> spec.NetworkTags,
   ServiceAccounts |-> spec.ServiceAccounts,
   ShieldedInstanceConfig |->
     [EnableSecureBoot |-> spec.EnableSecureBoot,
      EnableVtpm |-> spec.EnableVTPM,
      EnableIntegrityMonitoring |-> spec.EnableIntegrityMonitoring]]

(***************************************************************************)
(* The remote API.  remote[n] is the instance named n, Nil when there is   *)
(* none.  An answer to a request is Accepted or an error: an               *)
(* apierror.APIError with its HTTP code, or an error of another type.      *)
(***************************************************************************)
Accepted == [ok |-> TRUE, api |-> FALSE, code |-> 0]
NotFoundErr == [ok |-> FALSE, api |-> TRUE, code |-> HTTPNotFound]
ForbiddenErr == [ok |-> FALSE, api |-> TRUE, code |-> HTTPForbidden]
ConflictErr == [ok |-> FALSE, api |-> TRUE, code |-> 409]
TransportErr == [ok |-> FALSE, api |-> FALSE, code |-> 0]

\* err.Error() of an answer
ErrText(a) ==
  IF ~a.api THEN <<"connection refused">>
  ELSE IF a.code = HTTPNotFound THEN <<"googleapi: Error 404">>
  ELSE IF a.code = HTTPForbidden THEN <<"googleapi: Error 403">>
  ELSE <<"googleapi: Error 409">>

\* what the remote may answer to Get, Delete, Stop or Start of an instance
TargetAnswers(inst) ==
  IF inst = Nil THEN {NotFoundErr, ForbiddenErr}
  ELSE {Accepted, ForbiddenErr}

\* what the remote may answer to Insert
InsertAnswers(inst) ==
  IF inst = Nil THEN {Accepted, ForbiddenErr}
  ELSE {ConflictErr, ForbiddenErr}

\* what awaiting an operation may return
WaitAnswers == {Accepted, TransportErr}

\* the instance the remote holds once it accepted the Insert of inst
RemoteInstance(inst, status) ==
  [Name |-> <<inst.Name>>,
   Status |-> <<status>>,
   Labels |-> inst.Labels,
   Metadata |-> [i \in 1..Len(inst.Metadata) |->
                   [Key |-> <<inst.Metadata[i].Key>>,
                    Value |-> <<inst.Metadata[i].Value>>]],
   Disks |-> <<[Architecture |-> <<"amd64">>]>>]

SetStatus(r, n, status) ==
  IF r[n] = Nil THEN r ELSE [r EXCEPT ![n].Status = <<status>>]

(***************************************************************************)
(* util: the conversion of a remote instance into a provider record.       *)
(***************************************************************************)
ZeroProviderInstance ==
  [ProviderID |-> <<>>, Name |-> <<>>, OSType |-> <<>>, OSArch |-> "", Status |-> ""]

RECURSIVE RunnerNameItem(_, _)
\* the loop of getNameForInstance over the metadata items, from items[i]: the
\* value of the first item whose key is runner_name and whose value is not
\* nil, Nil when there is none.  An item's Key and Value are *string; a nil
\* Metadata and one without items are both the empty sequence.
RunnerNameItem(items, i) ==
  IF i > Len(items) THEN Nil
  ELSE IF /\ items[i].Key # Nil
          /\ items[i].Key[1] = "runner_name"
          /\ items[i].Value # Nil
       THEN items[i].Value
  ELSE RunnerNameItem(items, i + 1)

\* getNameForInstance, of an instance that is not nil
getNameForInstance(instance) ==
  IF RunnerNameItem(instance.Metadata, 1) # Nil
  THEN RunnerNameItem(instance.Metadata, 1)[1]
  ELSE IF instance.Name # Nil THEN instance.Name[1] ELSE <<>>

\* another normalizer, which the property of the status tells apart from the
\* code's: an instance that is being staged or suspended counts as unknown
StatusOfSettled(status) ==
  IF status \in {"RUNNING", "PROVISIONING"} THEN "running"
  ELSE IF status \in {"STOPPING", "TERMINATED"} THEN "stopped"
  ELSE "unknown"

\* the switch of GcpInstanceToParamsInstance over gcpInstance.GetStatus()
StatusOf(status) ==
  IF status \in {"RUNNING", "STAGING", "PROVISIONING"} THEN "running"
  ELSE IF status \in {"STOPPING", "TERMINATED", "SUSPENDED"} THEN "stopped"
  ELSE "unknown"

\* GcpInstanceToParamsInstance: [err, val, panic]; panic is the run-time panic
\* of gcpInstance.Disks[0] or of *Architecture
GcpInstanceToParamsInstance(gcpInstance) ==
  IF gcpInstance = Nil
  THEN [err |-> <<"instance ID is nil">>, val |-> ZeroProviderInstance, panic |-> FALSE]
  ELSE IF gcpInstance.Name = Nil
  THEN [err |-> <<"instance name is nil">>, val |-> ZeroProviderInstance, panic |-> FALSE]
  ELSE IF Len(gcpInstance.Disks) = 0 \/ gcpInstance.Disks[1].Architecture = Nil
  THEN [err |-> Nil, val |-> ZeroProviderInstance, panic |-> TRUE]
  ELSE [err |-> Nil,
        val |-> [ProviderID |-> GetInstanceName(gcpInstance.Name[1]),
                 Name |-> getNameForInstance(gcpInstance),
                 OSType |-> IF osType \in DOMAIN gcpInstance.Labels
                            THEN gcpInstance.Labels[osType] ELSE <<>>,
                 OSArch |-> gcpInstance.Disks[1].Architecture[1],
                 Status |-> StatusOf(IF gcpInstance.Status = Nil THEN ""
                                     ELSE gcpInstance.Status[1])],
        panic |-> FALSE]


(***************************************************************************)
(* The inputs of the model.                                                *)
(***************************************************************************)
Calls == 1..NumCalls

\* the names the operations are given: one instance, spelled in two ways
Names == {<<"V","m">>, <<"v","m">>}
\* another instance of the pool, which the remote may hold
OtherName == <<"v","x">>
LowerNames == {ToLower(n) : n \in Names} \cup {OtherName}
Pool1 == <<"p","1">>
Controller1 == <<"c","1">>

\* config.Config, as NewConfig accepts it: zone, project, network and
\* subnetwork are not empty
Configs ==
  {[Zone |-> "zone-a", ProjectId |-> "project", NetworkID |-> "cfg-network",
    SubnetworkID |-> "cfg-subnetwork", ExternalIPAccess |-> b] : b \in BOOLEAN}

\* params.BootstrapInstance
Bootstrap(name, os, blob) ==
  [Name |-> name, OSType |-> os, OSArch |-> "amd64", Flavor |-> "e2-medium",
   Image |-> "image", PoolID |-> Pool1, ExtraSpecs |-> blob]

\* the requests of the lifecycle specification
Requests ==
  {Bootstrap(n, os, JsonBlob(EmptyMap)) : n \in Names, os \in {Linux}}

\* an instance an earlier Create of this provider left on the remote
PriorInstance(n) ==
  [Name |-> <<n>>,
   Status |-> <<"RUNNING">>,
   Labels |-> [k \in {garmPoolID, osType} |-> IF k = garmPoolID THEN Pool1 ELSE Linux],
   Metadata |-> <<[Key |-> <<"runner_name">>, Value |-> <<n>>]>>,
   Disks |-> <<[Architecture |-> <<"amd64">>]>>]

(***************************************************************************)
(* The state.  calls[c] is one invocation of a provider operation:         *)
(*   op    the operation, "none" before it is invoked                      *)
(*   pc    "idle", "wait" (an operation is awaited), "get" (Create goes    *)
(*         on to GetInstance), "iter" (List drains the iterator), "done",  *)
(*         "panic"                                                         *)
(*   name  the instance name or pool id it was given                       *)
(*   spec  the runner specification of a Create, inst its descriptor       *)
(*   log   the remote API requests it issued, in order                     *)
(*   sub   the remote's answer to its submission, wt to its await          *)
(*   waits the number of awaits                                            *)
(*   it    what the iterator of a List still holds, acc what was drained   *)
(*   res   its result [err, val] once done                                 *)
(* eval is the application of a function of the program to an input, for   *)
(* the specifications of single functions; Nil in the others.              *)
(***************************************************************************)
IdleCall ==
  [op |-> "none", pc |-> "idle", name |-> <<>>, bp |-> Nil, spec |-> Nil,
   inst |-> Nil, log |-> <<>>, sub |-> Nil, wt |-> Nil, waits |-> 0,
   it |-> <<>>, acc |-> <<>>, res |-> Nil]

Request(kind, name) == [k |-> kind, name |-> name]

Init ==
  /\ cfg \in {x \in Configs : x.ExternalIPAccess}
  /\ controllerID = Controller1
  /\ remote \in {[n \in LowerNames |-> IF n \in S THEN PriorInstance(n) ELSE Nil] :
                    S \in SUBSET LowerNames}
  /\ calls = [c \in Calls |-> IdleCall]
  /\ eval = Nil

(***************************************************************************)
(* Create.                                                                 *)
(***************************************************************************)
\* a record whose provider id is the request's name as given, which the
\* property of the record of a Create tells apart from the code's
CreatedInstanceRaw(inst, spec) ==
  [ProviderID |-> spec.BootstrapParams.Name,
   Name |-> spec.BootstrapParams.Name,
   OSType |-> spec.BootstrapParams.OSType,
   OSArch |-> spec.BootstrapParams.OSArch,
   Status |-> "running"]

\* the record GcpProvider.CreateInstance returns on success
CreatedInstance(inst, spec) ==
  [ProviderID |-> inst.Name,
   Name |-> spec.BootstrapParams.Name,
   OSType |-> spec.BootstrapParams.OSType,
   OSArch |-> spec.BootstrapParams.OSArch,
   Status |-> "running"]

\* GcpProvider.CreateInstance up to the answer to the Insert request:
\* GetRunnerSpecFromBootstrapParams, then GcpCli.CreateInstance composing the
\* user data, building the descriptor and submitting it
CreateInstance(c, bootstrapParams) ==
  /\ calls[c].pc = "idle"
  /\ \E toolsErr \in {Nil, <<"tools not found">>},
        renderErr \in {Nil, <<"render failed">>} :
       \E r \in GetRunnerSpecFromBootstrapParams(cfg, bootstrapParams,
                                                 controllerID, toolsErr) :
         LET started == [calls[c] EXCEPT !.op = "Create", !.bp = bootstrapParams,
                                         !.name = bootstrapParams.Name]
             u == ComposeUserData(r.spec, renderErr)
             inst == BuildInstance(cfg, r.spec, u.udata)
         IN IF IsErr(r.err)
            THEN /\ calls' = [calls EXCEPT ![c] =
                       [started EXCEPT !.pc = "done",
                          !.res = [err |-> Wrap("failed to get runner spec", r.err),
                                   val |-> ZeroProviderInstance]]]
                 /\ UNCHANGED remote
            ELSE IF IsErr(u.err)
            THEN /\ calls' = [calls EXCEPT ![c] =
                       [started EXCEPT !.pc = "get", !.spec = r.spec]]
                 /\ UNCHANGED remote
            ELSE \E a \in InsertAnswers(remote[inst.Name]) :
                   /\ calls' = [calls EXCEPT ![c] =
                         [started EXCEPT !.pc = IF a.ok THEN "wait" ELSE "get",
                            !.spec = r.spec, !.inst = inst, !.sub = a,
                            !.log = Append(@, Request("Insert", inst.Name))]]
                   /\ remote' = IF a.ok
                                THEN [remote EXCEPT ![inst.Name] =
                                        RemoteInstance(inst, "PROVISIONING")]
                                ELSE remote
  /\ UNCHANGED <<cfg, controllerID, eval>>

\* GcpCli.CreateInstance awaiting the operation, and GcpProvider.CreateInstance
\* building its result when the await succeeded
CreateInstanceWait(c) ==
  /\ calls[c].op = "Create"
  /\ calls[c].pc = "wait"
  /\ \E a \in WaitAnswers :
       /\ calls' = [calls EXCEPT ![c] =
             [@ EXCEPT !.waits = @ + 1, !.wt = a,
                !.pc = IF a.ok THEN "done" ELSE "get",
                !.res = IF a.ok
                        THEN [err |-> Nil,
                              val |-> CreatedInstance(calls[c].inst, calls[c].spec)]
                        ELSE @]]
       /\ remote' = IF a.ok THEN SetStatus(remote, calls[c].inst.Name, "RUNNING")
                    ELSE remote
  /\ UNCHANGED <<cfg, controllerID, eval>>

\* a GetInstance that answers from the instance as it was first seen rather
\* than from the answer to its request, which the property of the freshness
\* of Get and List tells apart from the code's
GetInstanceResultCached(a, instance) ==
  IF ~a.ok
  THEN [err |-> <<"error getting instance", "failed to get instance">> \o ErrText(a),
        val |-> ZeroProviderInstance, panic |-> FALSE]
  ELSE GcpInstanceToParamsInstance(PriorInstance(instance.Name[1]))

\* GcpProvider.GetInstance, from the answer of the remote to the Get request:
\* [err, val, panic]
GetInstanceResult(a, instance) ==
  IF ~a.ok
  THEN [err |-> <<"error getting instance", "failed to get instance">> \o ErrText(a),
        val |-> ZeroProviderInstance, panic |-> FALSE]
  ELSE LET conv == GcpInstanceToParamsInstance(instance)
       IN IF IsErr(conv.err)
          THEN [conv EXCEPT !.err = Wrap("error converting instance", @)]
          ELSE conv

\* a Get request for the name as it is given, which the property of the
\* lower-cased target tells apart from the code's
GetStepRaw(c, op, name) ==
  LET held == IF name \in DOMAIN remote THEN remote[name] ELSE Nil
  IN \E a \in TargetAnswers(held) :
       LET r == GetInstanceResult(a, held)
       IN calls' = [calls EXCEPT ![c] =
             [@ EXCEPT !.pc = IF r.panic THEN "panic" ELSE "done",
                !.op = op, !.name = name,
                !.log = Append(@, Request("Get", name)),
                !.res = [err |-> r.err, val |-> r.val]]]

\* the Get request of GcpProvider.GetInstance for the name it is given
GetStep(c, op, name) ==
  \E a \in TargetAnswers(remote[GetInstanceName(name)]) :
    LET r == GetInstanceResult(a, remote[GetInstanceName(name)])
    IN calls' = [calls EXCEPT ![c] =
          [@ EXCEPT !.pc = IF r.panic THEN "panic" ELSE "done",
             !.op = op, !.name = name,
             !.log = Append(@, Request("Get", GetInstanceName(name))),
             !.res = [err |-> r.err, val |-> r.val]]]

\* GcpProvider.CreateInstance when GcpCli.CreateInstance returned an error:
\* return g.GetInstance(ctx, bootstrapParams.Name)
CreateInstanceGet(c) ==
  /\ calls[c].op = "Create"
  /\ calls[c].pc = "get"
  /\ GetStep(c, "Create", calls[c].bp.Name)
  /\ UNCHANGED <<cfg, controllerID, remote, eval>>

\* GcpProvider.GetInstance
GetInstance(c, instance) ==
  /\ calls[c].pc = "idle"
  /\ GetStep(c, "Get", instance)
  /\ UNCHANGED <<cfg, controllerID, remote, eval>>

(***************************************************************************)
(* Delete, Stop, Start.                                                    *)
(***************************************************************************)
\* Other tests of the error of a Delete request, which the properties of
\* DeleteInstance tell apart from the code's: 403 taken for the instance being
\* gone, every API error taken for it, and no error taken for it.
IsForbidden(a) == a.api /\ a.code = HTTPForbidden

IsAPIError(a) == a.api

DeleteSubmitErrStrict(a) ==
  IF a.ok THEN Nil ELSE <<"unable to delete instance">> \o ErrText(a)

\* asApiErr, ok := err.(*apierror.APIError); ok && asApiErr.HTTPCode() == 404
IsNotFound(a) == a.api /\ a.code = HTTPNotFound

\* GcpCli.DeleteInstance on the answer to its Delete request: the error it
\* returns at once, Nil when it returns nil or goes on to await
DeleteSubmitErr(a) ==
  IF a.ok THEN Nil
  ELSE IF IsNotFound(a) THEN Nil
  ELSE <<"unable to delete instance">> \o ErrText(a)

\* GcpProvider.DeleteInstance wrapping the error of GcpCli.DeleteInstance
DeleteResult(err) ==
  [err |-> IF IsErr(err) THEN Wrap("error deleting instance", err) ELSE Nil,
   val |-> ZeroProviderInstance]

\* GcpProvider.DeleteInstance up to the answer to the Delete request
DeleteInstance(c, instance) ==
  /\ calls[c].pc = "idle"
  /\ \E a \in TargetAnswers(remote[GetInstanceName(instance)]) :
       /\ calls' = [calls EXCEPT ![c] =
             [@ EXCEPT !.op = "Delete", !.name = instance, !.sub = a,
                !.log = Append(@, Request("Delete", GetInstanceName(instance))),
                !.pc = IF a.ok THEN "wait" ELSE "done",
                !.res = IF a.ok THEN @ ELSE DeleteResult(DeleteSubmitErr(a))]]
       /\ remote' = IF a.ok
                    THEN SetStatus(remote, GetInstanceName(instance), "STOPPING")
                    ELSE remote
  /\ UNCHANGED <<cfg, controllerID, eval>>

\* GcpCli.DeleteInstance awaiting the operation
DeleteInstanceWait(c) ==
  /\ calls[c].op = "Delete"
  /\ calls[c].pc = "wait"
  /\ \E a \in WaitAnswers :
       /\ calls' = [calls EXCEPT ![c] =
             [@ EXCEPT !.waits = @ + 1, !.wt = a, !.pc = "done",
                !.res = DeleteResult(
                          IF a.ok THEN Nil
                          ELSE <<"unable to wait for the delete operation">>
                               \o ErrText(a))]]
       /\ remote' = IF a.ok
                    THEN [remote EXCEPT ![GetInstanceName(calls[c].name)] = Nil]
                    ELSE remote
  /\ UNCHANGED <<cfg, controllerID, eval>>

\* GcpProvider.Stop up to the answer to the Stop request
Stop(c, instance) ==
  /\ calls[c].pc = "idle"
  /\ \E a \in TargetAnswers(remote[GetInstanceName(instance)]) :
       /\ calls' = [calls EXCEPT ![c] =
             [@ EXCEPT !.op = "Stop", !.name = instance, !.sub = a,
                !.log = Append(@, Request("Stop", GetInstanceName(instance))),
                !.pc = IF a.ok THEN "wait" ELSE "done",
                !.res = IF a.ok THEN @
                        ELSE [err |-> <<"unable to stop instance">> \o ErrText(a),
                              val |-> ZeroProviderInstance]]]
       /\ remote' = IF a.ok
                    THEN SetStatus(remote, GetInstanceName(instance), "STOPPING")
                    ELSE remote
  /\ UNCHANGED <<cfg, controllerID, eval>>

\* GcpCli.StopInstance awaiting the operation
StopWait(c) ==
  /\ calls[c].op = "Stop"
  /\ calls[c].pc = "wait"
  /\ \E a \in WaitAnswers :
       /\ calls' = [calls EXCEPT ![c] =
             [@ EXCEPT !.waits = @ + 1, !.wt = a, !.pc = "done",
                !.res = [err |-> IF a.ok THEN Nil
                                 ELSE <<"unable to wait for the operation">>
                                      \o ErrText(a),
                         val |-> ZeroProviderInstance]]]
       /\ remote' = IF a.ok
                    THEN SetStatus(remote, GetInstanceName(calls[c].name), "TERMINATED")
                    ELSE remote
  /\ UNCHANGED <<cfg, controllerID, eval>>

\* GcpProvider.Start up to the answer to the Start request
Start(c, instance) ==
  /\ calls[c].pc = "idle"
  /\ \E a \in TargetAnswers(remote[GetInstanceName(instance)]) :
       /\ calls' = [calls EXCEPT ![c] =
             [@ EXCEPT !.op = "Start", !.name = instance, !.sub = a,
                !.log = Append(@, Request("Start", GetInstanceName(instance))),
                !.pc = IF a.ok THEN "wait" ELSE "done",
                !.res = IF a.ok THEN @
                        ELSE [err |-> <<"unable to start instance">> \o ErrText(a),
                              val |-> ZeroProviderInstance]]]
       /\ remote' = IF a.ok
                    THEN SetStatus(remote, GetInstanceName(instance), "PROVISIONING")
                    ELSE remote
  /\ UNCHANGED <<cfg, controllerID, eval>>

\* GcpCli.StartInstance awaiting the operation
StartWait(c) ==
  /\ calls[c].op = "Start"
  /\ calls[c].pc = "wait"
  /\ \E a \in WaitAnswers :
       /\ calls' = [calls EXCEPT ![c] =
             [@ EXCEPT !.waits = @ + 1, !.wt = a, !.pc = "done",
                !.res = [err |-> IF a.ok THEN Nil
                                 ELSE <<"unable to wait for the operation">>
                                      \o ErrText(a),
                         val |-> ZeroProviderInstance]]]
       /\ remote' = IF a.ok
                    THEN SetStatus(remote, GetInstanceName(calls[c].name), "RUNNING")
                    ELSE remote
  /\ UNCHANGED <<cfg, controllerID, eval>>

(***************************************************************************)
(* List.                                                                   *)
(***************************************************************************)
RECURSIVE SeqOfSet(_)
\* the elements of a set in some fixed order
SeqOfSet(S) ==
  IF S = {} THEN <<>>
  ELSE LET x == CHOOSE x \in S : TRUE IN <<x>> \o SeqOfSet(S \ {x})

\* the instances the filter "labels.garmpoolid=<poolID>" selects
Matching(r, poolID) ==
  {n \in DOMAIN r : /\ r[n] # Nil
                    /\ garmPoolID \in DOMAIN r[n].Labels
                    /\ r[n].Labels[garmPoolID] = poolID}

RECURSIVE ConvertAll(_, _, _)
\* the loop of GcpProvider.ListInstances over the instances: [err, val, panic]
ConvertAll(instances, i, acc) ==
  IF i > Len(instances) THEN [err |-> Nil, val |-> acc, panic |-> FALSE]
  ELSE LET conv == GcpInstanceToParamsInstance(instances[i])
       IN IF conv.panic THEN [err |-> Nil, val |-> <<>>, panic |-> TRUE]
          ELSE IF IsErr(conv.err)
          THEN [err |-> Wrap("failed to convert instance", conv.err),
                val |-> <<>>, panic |-> FALSE]
          ELSE ConvertAll(instances, i + 1, Append(acc, conv.val))

\* GcpProvider.ListInstances up to the iterator that the List request returns
ListInstances(c, poolID) ==
  /\ calls[c].pc = "idle"
  /\ calls' = [calls EXCEPT ![c] =
        [@ EXCEPT !.op = "List", !.name = poolID, !.pc = "iter",
           !.log = Append(@, Request("List", poolID)),
           !.it = [i \in 1..Cardinality(Matching(remote, poolID)) |->
                     remote[SeqOfSet(Matching(remote, poolID))[i]]]]]
  /\ UNCHANGED <<cfg, controllerID, remote, eval>>

\* a loop that puts each instance in front of the ones it already drained,
\* which the property of the order of a List tells apart from the code's
ListNextPrepend(c) ==
  /\ calls[c].op = "List"
  /\ calls[c].pc = "iter"
  /\ \E failed \in BOOLEAN :
       IF Len(calls[c].it) > 0 /\ ~failed
       THEN calls' = [calls EXCEPT ![c] =
               [@ EXCEPT !.it = Tail(@), !.acc = <<Head(calls[c].it)>> \o @]]
       ELSE LET r == ConvertAll(calls[c].acc, 1, <<>>)
            IN calls' = [calls EXCEPT ![c] =
                  [@ EXCEPT !.it = <<>>,
                     !.pc = IF r.panic THEN "panic" ELSE "done",
                     !.res = [err |-> r.err, val |-> r.val]]]
  /\ UNCHANGED <<cfg, controllerID, remote, eval>>

\* one NextIt(it) of GcpCli.ListDescribedInstances: the iterator yields its
\* next instance, or nil when it is exhausted or fails; on nil the loop ends and
\* GcpProvider.ListInstances converts what was drained
ListNext(c) ==
  /\ calls[c].op = "List"
  /\ calls[c].pc = "iter"
  /\ \E failed \in BOOLEAN :
       IF Len(calls[c].it) > 0 /\ ~failed
       THEN calls' = [calls EXCEPT ![c] =
               [@ EXCEPT !.it = Tail(@), !.acc = Append(@, Head(calls[c].it))]]
       ELSE LET r == ConvertAll(calls[c].acc, 1, <<>>)
            IN calls' = [calls EXCEPT ![c] =
                  [@ EXCEPT !.it = <<>>,
                     !.pc = IF r.panic THEN "panic" ELSE "done",
                     !.res = [err |-> r.err, val |-> r.val]]]
  /\ UNCHANGED <<cfg, controllerID, remote, eval>>

(***************************************************************************)
(* The lifecycle specification: NumCalls invocations, interleaved at the   *)
(* remote requests.                                                        *)
(***************************************************************************)
Next ==
  \E c \in Calls :
    \/ \E bp \in Requests : CreateInstance(c, bp)
    \/ CreateInstanceWait(c)
    \/ CreateInstanceGet(c)
    \/ \E n \in Names : GetInstance(c, n)
    \/ \E n \in Names : DeleteInstance(c, n)
    \/ DeleteInstanceWait(c)
    \/ \E n \in Names : Stop(c, n)
    \/ StopWait(c)
    \/ \E n \in Names : Start(c, n)
    \/ StartWait(c)
    \/ ListInstances(c, Pool1)
    \/ ListNext(c)

Spec == Init /\ [][Next]_vars

(***************************************************************************)
(* The creation specification: one CreateInstance, over the extra specs a  *)
(* request may carry, the operating systems, the configurations and the    *)
(* controller ids the provider may be constructed with.                    *)
(***************************************************************************)
\* extra specs that newExtraSpecsFromBootstrapData is to reject
WrongTypeBlob == JsonBlob("disksize" :> JStr("big"))
AdditionalPropertyBlob == JsonBlob("additional_property" :> JStr("x"))
BadLabelKeyBlob == JsonBlob("custom_labels" :> JObj(<<"K">> :> <<"v">>))
BadLabelValueBlob == JsonBlob("custom_labels" :> JObj(<<"k">> :> <<"V">>))
BadTagBlob == JsonBlob("network_tags" :> JArr(<< <<"a","-">> >>))

RejectedBlobs ==
  {MalformedBlob, WrongTypeBlob, AdditionalPropertyBlob, BadLabelKeyBlob,
   BadLabelValueBlob, BadTagBlob}

\* extra specs that name another network, subnetwork and NIC type than the
\* configuration and the default
OverrideBlob ==
  JsonBlob("network_id" :> JStr("xs-network")
           @@ "subnetwork_id" :> JStr("xs-subnetwork")
           @@ "nic_type" :> JStr("GVNIC"))

\* extra specs with labels, tags, SSH keys, a snapshot and flags
FullBlob ==
  JsonBlob("disksize" :> JInt(255)
           @@ "custom_labels" :> JObj(<<"e","n","v">> :> <<"p","r","o","d">>)
           @@ "network_tags" :> JArr(<< <<"w","e","b">> >>)
           @@ "source_snapshot" :> JStr("snapshot")
           @@ "ssh_keys" :> JArr(<<"user1:key1", "user2:key2">>)
           @@ "display_device" :> JBool(TRUE)
           @@ "enable_boot_debug" :> JBool(TRUE)
           @@ "enable_secure_boot" :> JBool(TRUE))

\* extra specs whose custom labels hold the key of the pool label
PoolLabelBlob ==
  JsonBlob("custom_labels" :> JObj(garmPoolID :> <<"p","2">>))

CreateBlobs ==
  RejectedBlobs \cup {EmptyBlob, JsonBlob(EmptyMap), OverrideBlob, FullBlob,
                      PoolLabelBlob}

\* an operating system the provider has no user data for
OtherOS == <<"b","s","d">>

CreateRequests ==
  {Bootstrap(n, os, b) : n \in Names, os \in {Linux, Windows, OtherOS},
                         b \in CreateBlobs}

InitCreate ==
  /\ cfg \in Configs
  /\ controllerID \in {<<>>, Controller1}
  /\ remote \in {[n \in LowerNames |-> IF n \in S THEN PriorInstance(n) ELSE Nil] :
                    S \in SUBSET {ToLower(n) : n \in Names}}
  /\ calls = [c \in Calls |-> IdleCall]
  /\ eval = Nil

NextCreate ==
  \/ \E bp \in CreateRequests : CreateInstance(1, bp)
  \/ CreateInstanceWait(1)
  \/ CreateInstanceGet(1)

SpecCreate == InitCreate /\ [][NextCreate]_vars

(***************************************************************************)
(* The merge specification: MergeExtraSpecs applied to a runner            *)
(* specification and the overlay read from a document of extra specs.      *)
(***************************************************************************)
\* the boolean flags: the key of the document and the field of RunnerSpec
FlagKeys == {"display_device", "enable_boot_debug", "disable_updates",
             "enable_secure_boot", "enable_vtpm", "enable_integrity_monitoring"}

FlagField(key) ==
  CASE key = "display_device" -> "DisplayDevice"
    [] key = "enable_boot_debug" -> "EnableBootDebug"
    [] key = "disable_updates" -> "DisableUpdates"
    [] key = "enable_secure_boot" -> "EnableSecureBoot"
    [] key = "enable_vtpm" -> "EnableVTPM"
    [] key = "enable_integrity_monitoring" -> "EnableIntegrityMonitoring"

\* the documents that leave each flag out, or give it as true or as false
FlagDocs ==
  {[k \in {k \in FlagKeys : tri[k] # "unset"} |-> JBool(tri[k] = "true")] :
     tri \in [FlagKeys -> {"unset", "true", "false"}]}

\* documents with SSH keys and with custom labels, one of them under a key
\* that GetRunnerSpecFromBootstrapParams derives from the request
FieldDocs ==
  {"ssh_keys" :> JArr(<<"user1:key1">>),
   "ssh_keys" :> JArr(<<"user1:key1", "user2:key2">>),
   "custom_labels" :> JObj(<<"e","n","v">> :> <<"p","r","o","d">>),
   "custom_labels" :> JObj(<<"e","n","v">> :> <<"p","r","o","d">>
                           @@ garmPoolID :> <<"p","2">>),
   OverrideBlob.doc,
   FullBlob.doc}

MergeDocs == FlagDocs \cup FieldDocs

\* runner specifications with every value of the flags
FlagSpecs ==
  {[BaseRunnerSpec(CHOOSE x \in Configs : x.ExternalIPAccess,
                   Bootstrap(OtherName, Linux, JsonBlob(EmptyMap)),
                   Controller1, "tools")
      EXCEPT !.DisplayDevice = f["display_device"],
             !.EnableBootDebug = f["enable_boot_debug"],
             !.DisableUpdates = f["disable_updates"],
             !.EnableSecureBoot = f["enable_secure_boot"],
             !.EnableVTPM = f["enable_vtpm"],
             !.EnableIntegrityMonitoring = f["enable_integrity_monitoring"]] :
     f \in [FlagKeys -> BOOLEAN]}

\* a runner specification that already holds SSH keys, a label of its own,
\* network tags and a snapshot
FieldSpecs ==
  {[BaseRunnerSpec(CHOOSE x \in Configs : x.ExternalIPAccess,
                   Bootstrap(OtherName, Linux, JsonBlob(EmptyMap)),
                   Controller1, "tools")
      EXCEPT !.SSHKeys = <<"user0:key0">>,
             !.CustomLabels = @ @@ (<<"e","n","v">> :> <<"d","e","v">>
                                    @@ <<"t","e","a","m">> :> <<"c","i">>),
             !.NetworkTags = << <<"o","l","d">> >>,
             !.SourceSnapshot = "old-snapshot",
             !.DiskSize = 50]}

MergeSpecs == FlagSpecs \cup FieldSpecs

InitMerge ==
  /\ cfg \in {x \in Configs : x.ExternalIPAccess}
  /\ controllerID = Controller1
  /\ remote = [n \in LowerNames |-> Nil]
  /\ calls = [c \in Calls |-> IdleCall]
  /\ eval \in UNION {{[r |-> r, doc |-> d, extraSpecs |-> x.spec, out |-> Nil] :
                         r \in MergeSpecs,
                         x \in newExtraSpecsFromBootstrapData(
                                 Bootstrap(OtherName, Linux, JsonBlob(d)))} :
                      d \in MergeDocs}

\* spec.MergeExtraSpecs(extraSpecs)
Merge ==
  /\ eval.out = Nil
  /\ eval' = [eval EXCEPT !.out = MergeExtraSpecs(eval.r, eval.extraSpecs)]
  /\ UNCHANGED <<cfg, controllerID, remote, calls>>

NextMerge == Merge

SpecMerge == InitMerge /\ [][NextMerge]_vars

(***************************************************************************)
(* The conversion specification: GcpInstanceToParamsInstance applied to an *)
(* instance as the remote may return it.                                   *)
(***************************************************************************)
\* the values of computepb.Instance.Status: absent, the six the normalizer
\* names, and others
ConvertStatuses ==
  {Nil} \cup {<<s>> : s \in {"RUNNING", "STAGING", "PROVISIONING", "STOPPING",
                             "TERMINATED", "SUSPENDED", "REPAIRING", "running", ""}}

\* metadata: none, a runner_name item, one behind an item of another key, one
\* whose value is nil, and one whose value is nil before one with a value
ConvertMetadata ==
  LET runner == [Key |-> <<"runner_name">>, Value |-> << <<"V","M","-","1">> >>]
      noValue == [Key |-> <<"runner_name">>, Value |-> Nil]
      other == [Key |-> <<"ssh-keys">>, Value |-> << <<"k">> >>]
      noKey == [Key |-> Nil, Value |-> << <<"k">> >>]
  IN {<<>>, <<runner>>, <<other, noKey, runner>>, <<noValue>>, <<noValue, runner>>}

\* the instances converted; Nil is the nil reference
ConvertInstances ==
  {Nil} \cup
  {[Name |-> n, Status |-> s, Labels |-> l, Metadata |-> m, Disks |-> d] :
     n \in {Nil} \cup {<<x>> : x \in Names},
     s \in ConvertStatuses,
     l \in {EmptyMap, osType :> Windows},
     m \in ConvertMetadata,
     d \in {<<>>, <<[Architecture |-> Nil]>>, <<[Architecture |-> <<"arm64">>]>>}}

InitConvert ==
  /\ cfg \in {x \in Configs : x.ExternalIPAccess}
  /\ controllerID = Controller1
  /\ remote = [n \in LowerNames |-> Nil]
  /\ calls = [c \in Calls |-> IdleCall]
  /\ eval \in {[gcpInstance |-> x, out |-> Nil] : x \in ConvertInstances}

\* util.GcpInstanceToParamsInstance(gcpInstance)
Convert ==
  /\ eval.out = Nil
  /\ eval' = [eval EXCEPT !.out = GcpInstanceToParamsInstance(eval.gcpInstance)]
  /\ UNCHANGED <<cfg, controllerID, remote, calls>>

NextConvert == Convert

SpecConvert == InitConvert /\ [][NextConvert]_vars

(***************************************************************************)
(* The specification of the reads: GetInstance and ListInstances against a *)
(* remote whose instances change status between the requests.              *)
(***************************************************************************)
\* the statuses the remote moves an instance to
ReadStatuses == {"RUNNING", "TERMINATED"}

\* the remote changes the status of an instance it holds; the program keeps
\* nothing of it
RemoteChange ==
  /\ \E n \in LowerNames, s \in ReadStatuses :
       /\ remote[n] # Nil
       /\ remote[n].Status # <<s>>
       /\ remote' = SetStatus(remote, n, s)
  /\ UNCHANGED <<cfg, controllerID, calls, eval>>

NextRead ==
  \/ \E c \in Calls :
       \/ \E n \in Names : GetInstance(c, n)
       \/ ListInstances(c, Pool1)
       \/ ListNext(c)
  \/ RemoteChange

SpecRead == Init /\ [][NextRead]_vars

(***************************************************************************)
(* The specification of extraSpecs.Validate, applied to overlays with one  *)
(* label of the lowercase grammar, with one character of it changed, and   *)
(* to overlays around the two limits.                                      *)
(***************************************************************************)
MaxLabelLen == 2

\* the characters a label of the grammar starts with, and goes on with
LabelFirst == {"a", "ss"}
LabelRest == {"a", "ss", "7", "_", "-"}
LabelUpper == {"A", "X"}
LabelDigits == {"7"}

SeqsUpTo(A, n) == UNION {[1..k -> A] : k \in 0..n}

\* keys and values of the lowercase grammar, the longest ones included
GrammarKeys ==
  {<<f>> \o r : f \in LabelFirst, r \in SeqsUpTo(LabelRest, MaxLabelLen - 1)}
  \cup {[i \in 1..63 |-> "a"]}
GrammarValues ==
  SeqsUpTo(LabelRest, MaxLabelLen) \cup {[i \in 1..63 |-> "a"]}

\* the changes of one character of a label: [kind, at, to]
LabelChanges(key, value) ==
  {[kind |-> "none", at |-> 0, to |-> ""]}
  \cup {[kind |-> "upper-key", at |-> i, to |-> u] :
          i \in 1..Len(key), u \in LabelUpper}
  \cup {[kind |-> "upper-value", at |-> i, to |-> u] :
          i \in 1..Len(value), u \in LabelUpper}
  \cup {[kind |-> "digit-key", at |-> 1, to |-> d] : d \in LabelDigits}
  \cup {[kind |-> "digit-value", at |-> 1, to |-> d] :
          d \in IF Len(value) > 0 THEN LabelDigits ELSE {}}

ChangedKey(key, ch) ==
  IF ch.kind \in {"upper-key", "digit-key"} THEN [key EXCEPT ![ch.at] = ch.to]
  ELSE key

ChangedValue(value, ch) ==
  IF ch.kind \in {"upper-value", "digit-value"} THEN [value EXCEPT ![ch.at] = ch.to]
  ELSE value

\* the overlay with the one label, changed
LabelOverlay(key, value, ch) ==
  [ZeroExtraSpecs EXCEPT
     !.CustomLabels = [k \in {ChangedKey(key, ch)} |-> ChangedValue(value, ch)]]

DigitChars == <<"0","1","2","3","4","5","6","7","8","9">>

\* the i-th of the labels and tags of the overlays around the limits
NthKey(i) == <<"k", DigitChars[(i \div 10) + 1], DigitChars[(i % 10) + 1]>>
NthTag(i) == <<"t", DigitChars[(i \div 10) + 1], DigitChars[(i % 10) + 1]>>

\* numbers of labels and of tags around the limits
LabelCounts == {0, 1, MaxCustomLabels - 1, MaxCustomLabels, MaxCustomLabels + 1,
                MaxCustomLabels + 2}
TagCounts == {0, 1, MaxNetworkTags - 1, MaxNetworkTags, MaxNetworkTags + 1}

\* the overlay with n labels and m tags, all of the grammar unless badLabel
\* (the value of the first label is upper-case) or badTag (the first tag ends
\* with a hyphen)
CountOverlay(n, m, badLabel, badTag) ==
  [ZeroExtraSpecs EXCEPT
     !.CustomLabels = [k \in {NthKey(i) : i \in 1..n} |->
                         IF badLabel /\ k = NthKey(1) THEN <<"V">> ELSE <<"v">>],
     !.NetworkTags = [i \in 1..m |->
                         IF badTag /\ i = 1 THEN <<"t","-">> ELSE NthTag(i)]]

InitValidate ==
  /\ cfg \in {x \in Configs : x.ExternalIPAccess}
  /\ controllerID = Controller1
  /\ remote = [n \in LowerNames |-> Nil]
  /\ calls = [c \in Calls |-> IdleCall]
  /\ \/ \E k \in GrammarKeys, v \in GrammarValues :
          \E ch \in LabelChanges(k, v) :
            eval = [case |-> "label", key |-> k, value |-> v, change |-> ch,
                    e |-> LabelOverlay(k, v, ch), out |-> Nil]
     \/ \E n \in LabelCounts, m \in TagCounts, bl \in BOOLEAN, bt \in BOOLEAN :
          eval = [case |-> "count", key |-> <<>>, value |-> <<>>,
                  change |-> [kind |-> "none", at |-> 0, to |-> ""],
                  e |-> CountOverlay(n, m, bl, bt), out |-> Nil]

\* e.Validate(): out is [err], the error it returned, Nil for none
ValidateOverlay ==
  /\ eval.out = Nil
  /\ \E err \in IF Validate(eval.e) = {} THEN {Nil} ELSE Validate(eval.e) :
       eval' = [eval EXCEPT !.out = [err |-> err]]
  /\ UNCHANGED <<cfg, controllerID, remote, calls>>

NextValidate == ValidateOverlay

SpecValidate == InitValidate /\ [][NextValidate]_vars

(***************************************************************************)
(* The specification of newExtraSpecsFromBootstrapData, applied to blobs   *)
(* with one or two fields of every JSON type, and to bytes that are not    *)
(* JSON.                                                                   *)
(***************************************************************************)
\* one JSON value of each type
SampleValues ==
  {JInt(1), JStr("x"), JBool(TRUE), JObj(EmptyMap), JArr(<<>>)}

\* the fields that the documents of two fields hold
PairKeys == {"disksize", "network_id", "custom_labels", "additional_property"}

SchemaDocs ==
  {EmptyMap}
  \cup {k :> v : k \in {DocKeys[i] : i \in 1..Len(DocKeys)}, v \in SampleValues}
  \cup {p[1] :> v1 @@ p[2] :> v2 :
          p \in {q \in PairKeys \X PairKeys : q[1] # q[2]},
          v1 \in SampleValues, v2 \in SampleValues}

SchemaBlobs == {MalformedBlob} \cup {JsonBlob(d) : d \in SchemaDocs}

InitSchema ==
  /\ cfg \in {x \in Configs : x.ExternalIPAccess}
  /\ controllerID = Controller1
  /\ remote = [n \in LowerNames |-> Nil]
  /\ calls = [c \in Calls |-> IdleCall]
  /\ \E b \in SchemaBlobs : eval = [blob |-> b, out |-> Nil]

\* newExtraSpecsFromBootstrapData(data): out is [err, spec]
LoadExtraSpecs ==
  /\ eval.out = Nil
  /\ \E r \in newExtraSpecsFromBootstrapData(Bootstrap(OtherName, Linux, eval.blob)) :
       eval' = [eval EXCEPT !.out = r]
  /\ UNCHANGED <<cfg, controllerID, remote, calls>>

NextSchema == LoadExtraSpecs

SpecSchema == InitSchema /\ [][NextSchema]_vars

(***************************************************************************)
(* The specification of RunnerSpec.Validate, applied to runner             *)
(* specifications with each of the five mandatory fields empty or not.     *)
(***************************************************************************)
ValidateSpecs ==
  {[BaseRunnerSpec(CHOOSE x \in Configs : x.ExternalIPAccess,
                   Bootstrap(OtherName, Linux, JsonBlob(EmptyMap)), Controller1, "tools")
      EXCEPT !.Zone = z, !.NetworkID = n, !.SubnetworkID = s,
             !.ControllerID = c, !.NicType = t] :
     z \in {"", "zone-a", "europe-west1-d"},
     n \in {"", "cfg-network", "xs-network"},
     s \in {"", "cfg-subnetwork", "xs-subnetwork"},
     c \in {<<>>, Controller1, <<"c">>},
     t \in {"", defaultNicType, "GVNIC"}}

InitRunnerValidate ==
  /\ cfg \in {x \in Configs : x.ExternalIPAccess}
  /\ controllerID = Controller1
  /\ remote = [n \in LowerNames |-> Nil]
  /\ calls = [c \in Calls |-> IdleCall]
  /\ \E r \in ValidateSpecs : eval = [r |-> r, out |-> Nil]

\* r.Validate(): out is [err]
ValidateRunnerSpec ==
  /\ eval.out = Nil
  /\ eval' = [eval EXCEPT !.out = [err |-> RunnerSpecValidate(eval.r)]]
  /\ UNCHANGED <<cfg, controllerID, remote, calls>>

NextRunnerValidate == ValidateRunnerSpec

SpecRunnerValidate == InitRunnerValidate /\ [][NextRunnerValidate]_vars

(***************************************************************************)
(* Properties of the lifecycle specification.                              *)
(***************************************************************************)
\* C1: a DeleteInstance whose Delete request failed with an API error of HTTP
\* code 404 has returned, returned no error, and awaited no operation.
C1_DeleteNotFoundSucceeds ==
  \A c \in Calls :
    (/\ calls[c].op = "Delete"
     /\ calls[c].sub # Nil
     /\ ~calls[c].sub.ok
     /\ calls[c].sub.api
     /\ calls[c].sub.code = HTTPNotFound)
    => /\ calls[c].pc = "done"
       /\ calls[c].res.err = Nil
       /\ calls[c].waits = 0
       /\ calls[c].wt = Nil
       /\ Len(calls[c].log) = 1

\* a Delete of an absent instance was answered 404 and has returned
C1_Witness ==
  \E c \in Calls :
    /\ calls[c].op = "Delete"
    /\ calls[c].sub = NotFoundErr
    /\ calls[c].pc = "done"
    /\ remote[GetInstanceName(calls[c].name)] = Nil

\* C2: a CreateInstance whose Insert request failed, or whose awaited operation
\* failed, returns an error and the zero instance record, never a success.
C2_CreateFailureIsError ==
  \A c \in Calls :
    (/\ calls[c].op = "Create"
     /\ calls[c].pc = "done"
     /\ \/ calls[c].sub # Nil /\ ~calls[c].sub.ok
        \/ calls[c].wt # Nil /\ ~calls[c].wt.ok)
    => /\ calls[c].res.err # Nil
       /\ calls[c].res.val = ZeroProviderInstance

\* C3: an invocation of a lifecycle operation issues at most one remote API
\* request and awaits at most one operation, whether it succeeds or fails.
C3_OneRequestPerCall ==
  \A c \in Calls :
    /\ Len(calls[c].log) <= 1
    /\ calls[c].waits <= 1

\* C5: a DeleteInstance that met no fault (its Delete request was accepted or
\* answered 404, and its await, if any, succeeded) returns no error; and once
\* every call is such a DeleteInstance of one instance and all have returned,
\* the instance is absent.
C5_DeletesConverge ==
  LET faultless(c) ==
        /\ calls[c].op = "Delete"
        /\ calls[c].pc = "done"
        /\ calls[c].sub \in {Accepted, NotFoundErr}
        /\ calls[c].sub.ok => calls[c].wt = Accepted
  IN /\ \A c \in Calls : faultless(c) => calls[c].res.err = Nil
     /\ \A n \in LowerNames :
          (\A c \in Calls : faultless(c) /\ GetInstanceName(calls[c].name) = n)
          => remote[n] = Nil

\* two DeleteInstance calls of one instance have both returned: the Delete of
\* one was accepted and awaited, the other found the instance gone
C5_Witness ==
  \E c1, c2 \in Calls :
    /\ c1 # c2
    /\ \A c \in Calls : calls[c].op = "Delete" /\ calls[c].pc = "done"
    /\ GetInstanceName(calls[c1].name) = GetInstanceName(calls[c2].name)
    /\ calls[c1].sub = Accepted /\ calls[c1].wt = Accepted
    /\ calls[c2].sub = NotFoundErr
    /\ calls[c1].res.err = Nil /\ calls[c2].res.err = Nil
    /\ remote[GetInstanceName(calls[c1].name)] = Nil

\* C6: a DeleteInstance whose Delete request failed with an error other than a
\* 404 API error, or whose awaited operation failed, returns an error.
C6_DeleteFailureIsError ==
  \A c \in Calls :
    (/\ calls[c].op = "Delete"
     /\ calls[c].sub # Nil
     /\ \/ ~calls[c].sub.ok /\ ~(calls[c].sub.api /\ calls[c].sub.code = HTTPNotFound)
        \/ calls[c].sub.ok /\ calls[c].wt # Nil /\ ~calls[c].wt.ok)
    => /\ calls[c].pc = "done"
       /\ calls[c].res.err # Nil
       /\ calls[c].res.err[1] = "error deleting instance"

\* one DeleteInstance was refused with 403 and another failed in its await,
\* and both have returned
C6_Witness ==
  \E c1, c2 \in Calls :
    /\ calls[c1].op = "Delete" /\ calls[c1].pc = "done"
    /\ calls[c1].sub = ForbiddenErr
    /\ calls[c2].op = "Delete" /\ calls[c2].pc = "done"
    /\ calls[c2].sub = Accepted /\ calls[c2].wt = TransportErr

(***************************************************************************)
(* Properties of the creation specification.                               *)
(***************************************************************************)
\* C4: no Insert request is submitted for a runner specification that
\* RunnerSpec.Validate rejects (an empty zone, network id, subnetwork id,
\* controller id or NIC type).
C4_NoInsertOfInvalidSpec ==
  \A c \in Calls :
    (\E i \in 1..Len(calls[c].log) : calls[c].log[i].k = "Insert")
    => RunnerSpecValidate(calls[c].spec) = Nil

\* C7: a CreateInstance given extra specs that are malformed, that the schema
\* rejects, or whose labels or tags fail validation has returned an error
\* that begins with "failed to get runner spec", with no instance record,
\* and has issued no remote request and awaited nothing.
C7_BadExtraSpecsRejectedBeforeRemote ==
  \A c \in Calls :
    (calls[c].op = "Create" /\ calls[c].bp.ExtraSpecs \in RejectedBlobs)
    => /\ calls[c].pc = "done"
       /\ Len(calls[c].res.err) > 1
       /\ calls[c].res.err[1] = "failed to get runner spec"
       /\ calls[c].res.val = ZeroProviderInstance
       /\ calls[c].log = <<>>
       /\ calls[c].waits = 0
       /\ calls[c].inst = Nil

\* a CreateInstance whose extra specs hold a label key that does not match was
\* rejected while loading the extra specs
C7_Witness ==
  \E c \in Calls :
    /\ calls[c].op = "Create"
    /\ calls[c].pc = "done"
    /\ calls[c].bp.ExtraSpecs = BadLabelKeyBlob
    /\ calls[c].res.err = <<"failed to get runner spec", "error loading extra specs",
                            "failed to validate extra specs",
                            "custom label key does not match requirements">>

\* C8: extra specs of zero bytes resolve to the empty overlay with no error,
\* and a CreateInstance that carries them is not rejected for its extra specs.
C8_EmptyExtraSpecsAccepted ==
  \A c \in Calls :
    (calls[c].op = "Create" /\ calls[c].bp.ExtraSpecs = EmptyBlob)
    => /\ newExtraSpecsFromBootstrapData(calls[c].bp)
            = {[err |-> Nil, spec |-> ZeroExtraSpecs]}
       /\ ~(/\ calls[c].pc = "done"
            /\ Len(calls[c].res.err) > 1
            /\ calls[c].res.err[2] = "error loading extra specs")

\* C9: the network interface of a submitted descriptor carries the network id,
\* the subnetwork id and the NIC type of the merged runner specification.
C9_InterfaceFollowsMergedSpec ==
  \A c \in Calls :
    (\E i \in 1..Len(calls[c].log) : calls[c].log[i].k = "Insert")
    => /\ calls[c].inst.NetworkInterfaces[1].Network = calls[c].spec.NetworkID
       /\ calls[c].inst.NetworkInterfaces[1].Subnetwork = calls[c].spec.SubnetworkID
       /\ calls[c].inst.NetworkInterfaces[1].NicType = calls[c].spec.NicType

(***************************************************************************)
(* Properties of the merge specification.                                  *)
(***************************************************************************)
\* C10: after MergeExtraSpecs, each boolean flag that the extra specs give,
\* as true or as false, has the given value, and each flag they leave out has
\* the value the runner specification had.
C10_FlagsOverride ==
  eval.out # Nil =>
    \A k \in FlagKeys :
      eval.out[FlagField(k)] = IF k \in DOMAIN eval.doc THEN eval.doc[k].v
                               ELSE eval.r[FlagField(k)]

\* C11: when the extra specs give SSH keys, the SSH-key value after the merge
\* is exactly those keys, in order, joined by single newlines, with no leading
\* or trailing newline, whatever the value was before the merge.
C11_SSHKeysJoined ==
  (eval.out # Nil /\ Len(eval.extraSpecs.SSHKeys) > 0) =>
    LET keys == eval.extraSpecs.SSHKeys
    IN eval.out.SSHKeys =
         [i \in 1..(2 * Len(keys) - 1) |->
            IF i % 2 = 1 THEN keys[(i + 1) \div 2] ELSE "\n"]

\* C12: merging an overlay in which no field is set leaves every field of the
\* runner specification as it was.
C12_EmptyOverlayChangesNothing ==
  (eval.out # Nil /\ eval.extraSpecs = ZeroExtraSpecs) => eval.out = eval.r

\* the empty document was merged into a specification that holds SSH keys,
\* labels, tags and a snapshot of its own
C12_Witness ==
  /\ eval.out # Nil
  /\ eval.doc = EmptyMap
  /\ eval.extraSpecs = ZeroExtraSpecs
  /\ eval.r \in FieldSpecs
  /\ eval.out.SSHKeys = <<"user0:key0">>

\* C13: after a merge the label map holds every label of the overlay with the
\* overlay's value, every other label it held before with its old value, and
\* nothing else; the keys garmpoolid, garmcontrollerid and ostype are present.
C13_LabelsMergeByKey ==
  eval.out # Nil =>
    LET over == eval.extraSpecs.CustomLabels
        pre == eval.r.CustomLabels
        post == eval.out.CustomLabels
    IN /\ DOMAIN post = DOMAIN pre \cup DOMAIN over
       /\ \A k \in DOMAIN over : post[k] = over[k]
       /\ \A k \in DOMAIN pre \ DOMAIN over : post[k] = pre[k]
       /\ {garmPoolID, garmControllerID, osType} \subseteq DOMAIN post

\* an overlay with a new value for env and one for garmpoolid was merged into
\* a specification that holds env and team
C13_Witness ==
  /\ eval.out # Nil
  /\ eval.r \in FieldSpecs
  /\ garmPoolID \in DOMAIN eval.extraSpecs.CustomLabels
  /\ eval.out.CustomLabels[garmPoolID] = <<"p","2">>
  /\ eval.out.CustomLabels[<<"e","n","v">>] = <<"p","r","o","d">>
  /\ eval.out.CustomLabels[<<"t","e","a","m">>] = <<"c","i">>
  /\ eval.out.CustomLabels[osType] = Linux

(***************************************************************************)
(* Properties of the conversion specification.                             *)
(***************************************************************************)
\* C14: converting an instance whose reference is nil, whose name is nil, or
\* whose first disk has no architecture returns an error and the zero record;
\* it does not panic.
C14_MissingFieldIsError ==
  (/\ eval.out # Nil
   /\ \/ eval.gcpInstance = Nil
      \/ eval.gcpInstance.Name = Nil
      \/ Len(eval.gcpInstance.Disks) = 0
      \/ eval.gcpInstance.Disks[1].Architecture = Nil)
  => /\ ~eval.out.panic
     /\ eval.out.err # Nil
     /\ eval.out.val = ZeroProviderInstance

\* C15: the conversion of an instance that has a name and an architecture
\* returns a record whose status is running for RUNNING, STAGING and
\* PROVISIONING, stopped for STOPPING, TERMINATED and SUSPENDED, and unknown
\* for every other status and for an absent one.
C15_StatusNormalized ==
  (/\ eval.out # Nil
   /\ eval.gcpInstance # Nil
   /\ eval.gcpInstance.Name # Nil
   /\ Len(eval.gcpInstance.Disks) > 0
   /\ eval.gcpInstance.Disks[1].Architecture # Nil)
  => /\ ~eval.out.panic
     /\ eval.out.err = Nil
     /\ eval.out.val.Status =
          IF eval.gcpInstance.Status \in {<<"RUNNING">>, <<"STAGING">>, <<"PROVISIONING">>}
          THEN "running"
          ELSE IF eval.gcpInstance.Status \in {<<"STOPPING">>, <<"TERMINATED">>, <<"SUSPENDED">>}
          THEN "stopped"
          ELSE "unknown"

\* an instance with no status was converted into a record of status unknown
C15_Witness ==
  /\ eval.out # Nil
  /\ eval.gcpInstance # Nil
  /\ eval.gcpInstance.Status = Nil
  /\ eval.out.err = Nil
  /\ ~eval.out.panic
  /\ eval.out.val.Status = "unknown"

\* C16: the name of a converted record is the value of the first runner_name
\* metadata item that has a value when the instance carries one, and the
\* lower-cased name of the instance otherwise.
C16_NameResolution ==
  (eval.out # Nil /\ ~eval.out.panic /\ eval.out.err = Nil)
  => LET items == eval.gcpInstance.Metadata
         named == {i \in 1..Len(items) :
                     items[i].Key = <<"runner_name">> /\ items[i].Value # Nil}
         first == CHOOSE i \in named : \A j \in named : i <= j
     IN eval.out.val.Name = IF named # {} THEN items[first].Value[1]
                            ELSE ToLower(eval.gcpInstance.Name[1])

(***************************************************************************)
(* Properties of the descriptor and of the record of a Create.             *)
(***************************************************************************)
\* C17: a CreateInstance whose Insert was accepted and whose await succeeded
\* has returned, with no error, the record built from the request (provider id
\* the lower-cased request name, name, OS type and architecture the request's,
\* status running), and has issued the Insert request and no other.
C17_CreateRecordFromRequest ==
  \A c \in Calls :
    (calls[c].op = "Create" /\ calls[c].sub = Accepted /\ calls[c].wt = Accepted)
    => /\ calls[c].pc = "done"
       /\ calls[c].res =
            [err |-> Nil,
             val |-> [ProviderID |-> ToLower(calls[c].bp.Name),
                      Name |-> calls[c].bp.Name,
                      OSType |-> calls[c].bp.OSType,
                      OSArch |-> calls[c].bp.OSArch,
                      Status |-> "running"]]
       /\ calls[c].log = <<Request("Insert", ToLower(calls[c].bp.Name))>>
       /\ calls[c].waits = 1

\* a Create of the name Vm succeeded and returned the provider id vm
C17_Witness ==
  \E c \in Calls :
    /\ calls[c].op = "Create"
    /\ calls[c].pc = "done"
    /\ calls[c].sub = Accepted
    /\ calls[c].wt = Accepted
    /\ calls[c].bp.Name = <<"V","m">>
    /\ calls[c].res.val.ProviderID = <<"v","m">>
    /\ calls[c].res.val.Name = <<"V","m">>

\* C19: the boot disk of a built descriptor names exactly one source: with no
\* source snapshot in the specification, the image of the request and no
\* snapshot reference (none, or the empty string); with one, the snapshot and
\* no image.
C19_ImageXorSnapshot ==
  \A c \in Calls :
    calls[c].inst # Nil =>
      LET p == calls[c].inst.Disks[1].InitializeParams
          snapshot == calls[c].spec.SourceSnapshot
      IN /\ Len(calls[c].inst.Disks) = 1
         /\ IF snapshot = ""
            THEN p.SourceImage = <<calls[c].bp.Image>> /\ p.SourceSnapshot \in {Nil, <<"">>}
            ELSE p.SourceImage = Nil /\ p.SourceSnapshot = <<snapshot>>

\* a descriptor was built for extra specs that name a snapshot
C19_Witness ==
  \E c \in Calls :
    /\ calls[c].inst # Nil
    /\ calls[c].bp.ExtraSpecs = FullBlob
    /\ calls[c].inst.Disks[1].InitializeParams.SourceSnapshot = <<"snapshot">>
    /\ calls[c].inst.Disks[1].InitializeParams.SourceImage = Nil

\* C20: the metadata of a built descriptor is the startup script under the key
\* of the OS family, runner_name and ssh-keys, followed by enable-windows-ssh
\* and sysprep-specialize-script-cmd exactly when the OS is Windows and the
\* specification holds SSH keys; nothing else.
C20_MetadataItems ==
  \A c \in Calls :
    calls[c].inst # Nil =>
      LET items == calls[c].inst.Metadata
          base == <<IF calls[c].bp.OSType = Windows THEN "sysprep-specialize-script-ps1"
                    ELSE "user-data",
                    "runner_name", "ssh-keys">>
          more == IF calls[c].bp.OSType = Windows /\ Len(calls[c].spec.SSHKeys) > 0
                  THEN <<"enable-windows-ssh", "sysprep-specialize-script-cmd">>
                  ELSE <<>>
      IN /\ [i \in 1..Len(items) |-> items[i].Key] = base \o more
         /\ items[2].Value = calls[c].bp.Name
         /\ items[3].Value = calls[c].spec.SSHKeys

\* a descriptor was built for a Windows request with SSH keys: five items
C20_Witness ==
  \E c \in Calls :
    /\ calls[c].inst # Nil
    /\ calls[c].bp.OSType = Windows
    /\ calls[c].bp.ExtraSpecs = FullBlob
    /\ Len(calls[c].inst.Metadata) = 5
    /\ calls[c].inst.Metadata[4].Key = "enable-windows-ssh"

\* C18: Get and List keep no cached instance state.  Every GetInstance that
\* completes has issued exactly one Get request of its own, and when it
\* succeeds the status it returns is the normalization of the status the
\* remote holds for the instance at that step; every ListInstances issues
\* exactly one List request of its own, its iterator holds the instances of
\* the pool as the remote holds them at that step, and the statuses it
\* returns are the normalization of the ones it drained from that iterator.
C18_ReadsAreFresh ==
  [][\A c \in Calls :
       /\ (calls[c].pc = "idle" /\ calls'[c].op = "Get" /\ calls'[c].pc = "done") =>
            /\ calls'[c].log = <<Request("Get", GetInstanceName(calls'[c].name))>>
            /\ calls'[c].res.err = Nil =>
                 /\ remote[GetInstanceName(calls'[c].name)] # Nil
                 /\ calls'[c].res.val.Status =
                      StatusOf(remote[GetInstanceName(calls'[c].name)].Status[1])
       /\ (calls[c].pc = "idle" /\ calls'[c].op = "List") =>
            /\ calls'[c].log = <<Request("List", calls'[c].name)>>
            /\ Len(calls'[c].it) = Cardinality(Matching(remote, calls'[c].name))
            /\ \A i \in 1..Len(calls'[c].it) :
                 /\ calls'[c].it[i].Name[1] \in Matching(remote, calls'[c].name)
                 /\ calls'[c].it[i] = remote[calls'[c].it[i].Name[1]]
       /\ (calls[c].op = "List" /\ calls[c].pc = "iter" /\ calls'[c].pc = "done"
            /\ calls'[c].res.err = Nil) =>
            /\ calls'[c].log = calls[c].log
            /\ Len(calls'[c].res.val) = Len(calls[c].acc)
            /\ \A i \in 1..Len(calls[c].acc) :
                 calls'[c].res.val[i].Status = StatusOf(calls[c].acc[i].Status[1])
  ]_vars

\* two GetInstance calls for the same instance both succeeded and returned
\* different statuses: the remote changed between them
C18_Witness ==
  \E c, d \in Calls :
    /\ c # d
    /\ calls[c].op = "Get" /\ calls[c].pc = "done" /\ calls[c].res.err = Nil
    /\ calls[d].op = "Get" /\ calls[d].pc = "done" /\ calls[d].res.err = Nil
    /\ GetInstanceName(calls[c].name) = GetInstanceName(calls[d].name)
    /\ calls[c].res.val.Status # calls[d].res.val.Status

\* C21: the network interface of a built descriptor has one access
\* configuration, of type ONE_TO_ONE_NAT, exactly when the static configuration
\* enables external IP access; when it is disabled the interface has no access
\* configuration at all.
C21_AccessConfigFollowsConfig ==
  \A c \in Calls :
    calls[c].inst # Nil =>
      LET nic == calls[c].inst.NetworkInterfaces[1]
      IN /\ Len(calls[c].inst.NetworkInterfaces) = 1
         /\ cfg.ExternalIPAccess => nic.AccessConfigs = <<[Type |-> "ONE_TO_ONE_NAT"]>>
         /\ ~cfg.ExternalIPAccess => nic.AccessConfigs = Nil

\* a descriptor was submitted under a configuration that disables external IP
\* access
C21_Witness ==
  \E c \in Calls :
    /\ ~cfg.ExternalIPAccess
    /\ calls[c].inst # Nil
    /\ \E i \in 1..Len(calls[c].log) : calls[c].log[i].k = "Insert"
    /\ calls[c].inst.NetworkInterfaces[1].AccessConfigs = Nil

\* C22: a CreateInstance for a request whose OS type is neither Linux nor
\* Windows, and whose runner specification was built, fails with the
\* unsupported-OS error naming the OS type, and submits no Insert request.
C22_UnsupportedOSIsError ==
  \A c \in Calls :
    (/\ calls[c].op = "Create"
     /\ calls[c].pc = "done"
     /\ calls[c].spec # Nil
     /\ calls[c].bp.OSType \notin {Linux, Windows})
    => /\ \A i \in 1..Len(calls[c].log) : calls[c].log[i].k # "Insert"
       /\ calls[c].res.val = ZeroProviderInstance
       /\ \E i \in 1..(Len(calls[c].res.err) - 1) :
            /\ calls[c].res.err[i] = "unsupported OS type for cloud config"
            /\ calls[c].res.err[i + 1] = calls[c].bp.OSType

(***************************************************************************)
(* Properties of the field validation of the extra specs.                  *)
(***************************************************************************)
\* C23 as stated: a label of the lowercase grammar validates, and validation
\* fails once one character of its key or of its value is changed to an
\* upper-case letter, or the first character of its key or of its value is
\* changed to a digit.
C23_LabelGrammarAsStated ==
  (eval.case = "label" /\ eval.out # Nil) =>
    /\ eval.change.kind = "none" => eval.out.err = Nil
    /\ eval.change.kind \in {"upper-key", "upper-value", "digit-key", "digit-value"}
         => eval.out.err # Nil

\* C23, amended: a label of the lowercase grammar validates; validation fails
\* once one character of its key or of its value is changed to an upper-case
\* letter, or the first character of its key is changed to a digit; a value
\* whose first character is changed to a digit still validates.
C23_LabelGrammar ==
  (eval.case = "label" /\ eval.out # Nil) =>
    /\ eval.change.kind = "none" => eval.out.err = Nil
    /\ eval.change.kind \in {"upper-key", "digit-key"}
         => eval.out.err = <<"custom label key does not match requirements">>
    /\ eval.change.kind = "upper-value"
         => eval.out.err = <<"custom label value does not match requirements">>
    /\ eval.change.kind = "digit-value" => eval.out.err = Nil

\* the first character of a key of several characters was changed to a digit
\* and validation failed
C23_Witness ==
  /\ eval.case = "label"
  /\ eval.out # Nil
  /\ eval.change.kind = "digit-key"
  /\ Len(eval.key) > 1
  /\ eval.out.err # Nil

\* C24: Validate rejects every overlay with more than 61 custom labels, with
\* the error of the label limit, and every overlay with more than 64 network
\* tags, with the error of the tag limit when its labels pass; it accepts an
\* overlay with exactly 61 labels of the grammar and at most 64 tags of the
\* grammar.
C24_LimitsEnforced ==
  (eval.case = "count" /\ eval.out # Nil) =>
    LET n == Cardinality(DOMAIN eval.e.CustomLabels)
        m == Len(eval.e.NetworkTags)
        labelsPass == \A k \in DOMAIN eval.e.CustomLabels : eval.e.CustomLabels[k] = <<"v">>
        tagsPass == \A i \in 1..m : eval.e.NetworkTags[i] = NthTag(i)
    IN /\ n > 61 => eval.out.err = <<"custom labels cannot exceed 61 items">>
       /\ m > 64 => eval.out.err # Nil
       /\ (m > 64 /\ n <= 61 /\ labelsPass)
            => eval.out.err = <<"network tags cannot exceed 64 items">>
       /\ (n = 61 /\ labelsPass /\ m <= 64 /\ tagsPass) => eval.out.err = Nil

\* an overlay with exactly 61 labels and exactly 64 tags, all of the grammar,
\* was validated and accepted
C24_Witness ==
  /\ eval.case = "count"
  /\ eval.out # Nil
  /\ Cardinality(DOMAIN eval.e.CustomLabels) = 61
  /\ Len(eval.e.NetworkTags) = 64
  /\ eval.out.err = Nil

(***************************************************************************)
(* Properties of the schema validation of the extra specs.                 *)
(***************************************************************************)
\* C25: extra specs that hold a field outside the schema, or a field of the
\* schema with a value of another type, are rejected with the error "schema
\* validation failed" naming each such field, and extra specs that are not
\* JSON with the different error "failed to validate schema"; neither yields
\* an overlay.
C25_SchemaErrorNamesField ==
  eval.out # Nil =>
    LET doc == eval.blob.doc
        offending == {k \in DOMAIN doc :
                        \/ k \notin generateJSONSchema
                        \/ doc[k].t # SchemaType(k)}
        err == eval.out.err
    IN /\ eval.blob.kind = "malformed" =>
            /\ eval.out.spec = Nil
            /\ Len(err) >= 2
            /\ err[1] = "failed to validate extra specs"
            /\ err[2] = "failed to validate schema"
       /\ (eval.blob.kind = "json" /\ offending # {}) =>
            /\ eval.out.spec = Nil
            /\ Len(err) >= 2
            /\ err[1] = "failed to validate extra specs"
            /\ err[2] = "schema validation failed"
            /\ \A k \in offending : \E i \in 3..Len(err) : err[i] = k

\* extra specs with a field outside the schema and a field of the schema of
\* the wrong type were rejected, and the error names both
C25_Witness ==
  /\ eval.out # Nil
  /\ DOMAIN eval.blob.doc = {"disksize", "additional_property"}
  /\ eval.blob.doc["disksize"].t = "string"
  /\ eval.out.spec = Nil
  /\ \E i, j \in 3..Len(eval.out.err) :
       eval.out.err[i] = "disksize" /\ eval.out.err[j] = "additional_property"

\* C26: every step of the loop of a List either takes the next instance of
\* the iterator and puts it after the ones already drained, or, the iterator
\* having yielded nil, ends the List, which then returns no error and the
\* records of exactly the drained instances, in the order they were drained.
C26_ListDrainsInOrder ==
  [][\A c \in Calls :
       (calls[c].op = "List" /\ calls[c].pc = "iter" /\ calls'[c] # calls[c]) =>
         IF calls'[c].pc = "iter"
         THEN /\ Len(calls[c].it) > 0
              /\ calls'[c].acc = Append(calls[c].acc, Head(calls[c].it))
              /\ calls'[c].it = Tail(calls[c].it)
         ELSE /\ calls'[c].pc = "done"
              /\ calls'[c].acc = calls[c].acc
              /\ calls'[c].log = calls[c].log
              /\ calls'[c].res.err = Nil
              /\ Len(calls'[c].res.val) = Len(calls[c].acc)
              /\ \A i \in 1..Len(calls[c].acc) :
                   /\ calls'[c].res.val[i].ProviderID =
                        GetInstanceName(calls[c].acc[i].Name[1])
                   /\ calls'[c].res.val[i] =
                        GcpInstanceToParamsInstance(calls[c].acc[i]).val
  ]_vars

\* a List drained every instance of the pool, two of them, and returned both
\* in the order of the iterator
C26_Witness ==
  \E c \in Calls :
    /\ calls[c].op = "List"
    /\ calls[c].pc = "done"
    /\ calls[c].res.err = Nil
    /\ Len(calls[c].acc) = 2
    /\ Len(calls[c].res.val) = 2
    /\ calls[c].res.val[1].ProviderID = calls[c].acc[1].Name[1]
    /\ calls[c].res.val[2].ProviderID = calls[c].acc[2].Name[1]
    /\ calls[c].res.val[1].ProviderID # calls[c].res.val[2].ProviderID

(***************************************************************************)
(* Properties of RunnerSpec.Validate.                                      *)
(***************************************************************************)
\* C27: RunnerSpec.Validate returns no error exactly when zone, network id,
\* subnetwork id, controller id and NIC type are all non-empty, and otherwise
\* the error "missing <field>" of the first of them, in that order, that is
\* empty.
C27_FirstMissingField ==
  eval.out # Nil =>
    LET r == eval.r
        isEmpty == <<r.Zone = "", r.NetworkID = "", r.SubnetworkID = "",
                     r.ControllerID = <<>>, r.NicType = "">>
        missing == <<"missing zone", "missing network id", "missing subnetwork id",
                     "missing controller id", "missing nic type">>
        empties == {i \in 1..5 : isEmpty[i]}
    IN /\ (eval.out.err = Nil) <=> (empties = {})
       /\ empties # {} =>
            eval.out.err = <<missing[CHOOSE i \in empties : \A j \in empties : i <= j]>>

\* a specification with every mandatory field set except the NIC type was
\* validated: missing nic type
C27_Witness ==
  /\ eval.out # Nil
  /\ eval.r.Zone # "" /\ eval.r.NetworkID # "" /\ eval.r.SubnetworkID # ""
  /\ eval.r.ControllerID # <<>>
  /\ eval.r.NicType = ""
  /\ eval.out.err = <<"missing nic type">>

\* C28: the descriptor of every Insert request carries the labels garmpoolid
\* with the pool id of the request, garmcontrollerid with the controller id
\* and ostype with the OS type of the request, whatever the custom labels of
\* the extra specs; once the remote accepted the Insert, the filter
\* labels.garmpoolid=<pool id> selects the instance.
C28_DerivedLabelsKept ==
  \A c \in Calls :
    (\E i \in 1..Len(calls[c].log) : calls[c].log[i].k = "Insert")
    => /\ {garmPoolID, garmControllerID, osType} \subseteq DOMAIN calls[c].inst.Labels
       /\ calls[c].inst.Labels[garmPoolID] = calls[c].bp.PoolID
       /\ calls[c].inst.Labels[garmControllerID] = controllerID
       /\ calls[c].inst.Labels[osType] = calls[c].bp.OSType
       /\ calls[c].sub.ok => calls[c].inst.Name \in Matching(remote, calls[c].bp.PoolID)

(***************************************************************************)
(* Properties of the lifecycle: names and awaits.                          *)
(***************************************************************************)
\* C29: every Insert, Get, Delete, Stop and Start request names the
\* lower-cased form of the name its call was given, with no upper-case
\* character left, so a Get, Delete, Stop or Start given a name in any
\* letter case names the instance that the Create of that name submitted.
C29_LowerCasedTarget ==
  \A c \in Calls :
    /\ \A i \in 1..Len(calls[c].log) :
         calls[c].log[i].k \in {"Insert", "Get", "Delete", "Stop", "Start"} =>
           /\ calls[c].log[i].name = ToLower(calls[c].name)
           /\ \A j \in 1..Len(calls[c].log[i].name) :
                calls[c].log[i].name[j] \notin AsciiUpper
    /\ \A d \in Calls :
         (/\ calls[c].op = "Create"
          /\ calls[c].inst # Nil
          /\ calls[d].op \in {"Get", "Delete", "Stop", "Start"}
          /\ ToLower(calls[d].name) = ToLower(calls[c].name))
         => \A i \in 1..Len(calls[d].log) : calls[d].log[i].name = calls[c].inst.Name

\* a Create given a name with an upper-case letter submitted its descriptor,
\* and a Get given the same name in lower case asked for the same instance
C29_Witness ==
  \E c, d \in Calls :
    /\ calls[c].op = "Create"
    /\ calls[c].name = <<"V","m">>
    /\ \E i \in 1..Len(calls[c].log) :
         calls[c].log[i] = Request("Insert", <<"v","m">>)
    /\ calls[d].op = "Get"
    /\ calls[d].name = <<"v","m">>
    /\ calls[d].log = <<Request("Get", <<"v","m">>)>>

\* C30: a Create, Delete, Stop or Start awaits at most once, and only after
\* its submission was accepted; a call whose submission failed has awaited
\* nothing; and a call that reports success has awaited its operation
\* without error, or is a Delete whose submission was answered 404.
C30_AwaitAfterSubmission ==
  \A c \in Calls :
    calls[c].op \in {"Create", "Delete", "Stop", "Start"} =>
      /\ calls[c].waits <= 1
      /\ calls[c].waits = 1 => (calls[c].sub # Nil /\ calls[c].sub.ok)
      /\ (calls[c].sub # Nil /\ ~calls[c].sub.ok) => calls[c].waits = 0
      /\ (calls[c].pc = "done" /\ calls[c].res.err = Nil) =>
           \/ calls[c].waits = 1 /\ calls[c].wt.ok
           \/ calls[c].op = "Delete" /\ calls[c].sub = NotFoundErr
====
